---------------------------- MODULE Spec2Model ----------------------------
(***************************************************************************)
(* Market Rate Resolution Engine of nursepal-chatbot.                      *)
(*                                                                         *)
(*   - DatabaseService.get_rate_recommendation  (src/database_service.py)  *)
(*     the city+state -> state -> national cascade over the transaction    *)
(*     table, and the statistics each tier's SQL computes;                 *)
(*   - chat_endpoint's rate_comparison / rate_impact arithmetic            *)
(*     (src/main.py) on the recommendation;                                *)
(*   - ChatbotForecastIntegration.generate_forecast_analysis and           *)
(*     ForecastingService (src/forecasting_integration.py): the primary    *)
(*     forecast request, the national supplement, the top-state retry.     *)
(*                                                                         *)
(* Money is exact: an aggregate is a rational <<numerator, denominator>>.  *)
(* A nullable column holds <<>> (SQL NULL) or <<v>>.                       *)
(***************************************************************************)
EXTENDS Integers, Sequences, FiniteSets, TLC

(***************************************************************************)
(* Bounds of the model.                                                    *)
(***************************************************************************)
\* the transaction table holds at most this many batches of identical rows
MaxBatches == 2

(***************************************************************************)
(* Python values.                                                          *)
(***************************************************************************)
NoneVal == "None"

\* Python truthiness of an Optional[str]: None and "" are falsy
Truthy(x) == x \notin {NoneVal, ""}

(***************************************************************************)
(* Exact rationals <<num, den>>, den > 0.                                  *)
(***************************************************************************)
RECURSIVE GCD(_, _)
GCD(a, b) == IF b = 0 THEN a ELSE GCD(b, a % b)

Abs(n) == IF n < 0 THEN 0 - n ELSE n

\* lowest terms, so that products stay small
Norm(a) ==
    LET g == GCD(Abs(a[1]), a[2])
    IN  <<a[1] \div g, a[2] \div g>>

RLeq(a, b) == a[1] * b[2] <= b[1] * a[2]

REq(a, b) == a[1] * b[2] = b[1] * a[2]

RLt(a, b) == a[1] * b[2] < b[1] * a[2]

\* a * (permille / 1000)
RScale(a, permille) == Norm(<<a[1] * permille, a[2] * 1000>>)

RTimes(a, k) == Norm(<<a[1] * k, a[2]>>)

RInt(n) == <<n, 1>>

RSub(a, b) == Norm(<<a[1] * b[2] - b[1] * a[2], a[2] * b[2]>>)

RAdd(a, b) == Norm(<<a[1] * b[2] + b[1] * a[2], a[2] * b[2]>>)

RIsZero(a) == a[1] = 0

\* a / b for b # 0, the denominator kept positive
RDiv(a, b) ==
    IF b[1] > 0 THEN Norm(<<a[1] * b[2], a[2] * b[1]>>)
    ELSE Norm(<<(0 - a[1]) * b[2], a[2] * (0 - b[1])>>)

(***************************************************************************)
(* Strings as character sequences, for the regular-expression match.       *)
(***************************************************************************)
Chars(s) ==
    CASE s = "ICU" ->
            <<"I", "C", "U">>
      [] s = "OR" ->
            <<"O", "R">>
      [] s = "NICU" ->
            <<"N", "I", "C", "U">>
      [] s = "RN - ICU" ->
            <<"R", "N", " ", "-", " ", "I", "C", "U">>
      [] s = "RN - NICU" ->
            <<"R", "N", " ", "-", " ", "N", "I", "C", "U">>
      [] s = "CRNA" ->
            <<"C", "R", "N", "A">>
      [] s = "crna" ->
            <<"c", "r", "n", "a">>
      [] s = "APRN - CRNA" ->
            <<"A", "P", "R", "N", " ", "-", " ", "C", "R", "N", "A">>
      [] s = "Certified Nurse Anesthetist" ->
            <<"C", "e", "r", "t", "i", "f", "i", "e", "d", " ", "N", "u", "r", "s", "e", " ", "A", "n", "e", "s", "t", "h", "e", "t", "i", "s", "t">>
      [] s = "Certified Nurse Anesthetist (CRNA)" ->
            <<"C", "e", "r", "t", "i", "f", "i", "e", "d", " ", "N", "u", "r", "s", "e", " ", "A", "n", "e", "s", "t", "h", "e", "t", "i", "s", "t", " ", "(", "C", "R", "N", "A", ")">>
      [] s = "RN - CRNA" ->
            <<"R", "N", " ", "-", " ", "C", "R", "N", "A">>
      [] s = "RN - " ->
            <<"R", "N", " ", "-", " ">>
      [] s = "APRN - " ->
            <<"A", "P", "R", "N", " ", "-", " ">>
      [] s = "MD/DO - " ->
            <<"M", "D", "/", "D", "O", " ", "-", " ">>
      [] s = "PA - " ->
            <<"P", "A", " ", "-", " ">>
      [] s = "CRNA - " ->
            <<"C", "R", "N", "A", " ", "-", " ">>
      [] s = "Dentistry - " ->
            <<"D", "e", "n", "t", "i", "s", "t", "r", "y", " ", "-", " ">>
      [] s = "Behavioral Health - " ->
            <<"B", "e", "h", "a", "v", "i", "o", "r", "a", "l", " ", "H", "e", "a", "l", "t", "h", " ", "-", " ">>
      [] s = "Clinical " ->
            <<"C", "l", "i", "n", "i", "c", "a", "l", " ">>
      [] s = "Psychologist" ->
            <<"P", "s", "y", "c", "h", "o", "l", "o", "g", "i", "s", "t">>
      [] s = "Pharmacist" ->
            <<"P", "h", "a", "r", "m", "a", "c", "i", "s", "t">>
      [] s = "Physicist" ->
            <<"P", "h", "y", "s", "i", "c", "i", "s", "t">>
      [] s = "Optometrist" ->
            <<"O", "p", "t", "o", "m", "e", "t", "r", "i", "s", "t">>
      [] s = "Exercise Physiologist" ->
            <<"E", "x", "e", "r", "c", "i", "s", "e", " ", "P", "h", "y", "s", "i", "o", "l", "o", "g", "i", "s", "t">>
      [] OTHER -> <<>>

\* SQL LOWER() on the place names the model uses
Lower(s) ==
    CASE s = "Buffalo" -> "buffalo"
      [] s = "Albany"  -> "albany"
      [] s = "Austin"  -> "austin"
      [] s = "NY"      -> "ny"
      [] s = "TX"      -> "tx"
      [] s = "COMPACT_STATES" -> "compact_states"
      [] OTHER         -> s

\* str.upper() on a character sequence
UpperSeq(l) ==
    LET low == <<"a", "b", "c", "d", "e", "f", "g", "h", "i", "j", "k", "l", "m",
                 "n", "o", "p", "q", "r", "s", "t", "u", "v", "w", "x", "y", "z">>
        upp == <<"A", "B", "C", "D", "E", "F", "G", "H", "I", "J", "K", "L", "M",
                 "N", "O", "P", "Q", "R", "S", "T", "U", "V", "W", "X", "Y", "Z">>
        UpChar(c) == IF \E k \in 1..26 : low[k] = c
                     THEN upp[CHOOSE k \in 1..26 : low[k] = c]
                     ELSE c
    IN  [i \in 1..Len(l) |-> UpChar(l[i])]

\* s.startswith(prefix)
StartsWith(s, prefix) ==
    LET l == Chars(s)
        q == Chars(prefix)
    IN  Len(q) <= Len(l) /\ SubSeq(l, 1, Len(q)) = q

\* l contains s as a contiguous substring
Contains(l, s) ==
    \E i \in 1..(Len(l) - Len(s) + 1) : SubSeq(l, i, i + Len(s) - 1) = s

_normalize_specialty_for_query(specialty) ==
    IF UpperSeq(Chars(specialty)) = Chars("CRNA")
    THEN [kind |-> "crna", lit |-> <<>>]
    ELSE [kind |-> "boundary", lit |-> Chars(specialty)]

\* The specialty is put into the pattern as it is, without escaping: the
\* regular-expression engine reads "(" and ")" in it as a group, which matches
\* what is inside it and no parenthesis.  (These are the only metacharacters
\* among the characters of the model's specialties.)
PatternAtoms(lit) == SelectSeq(lit, LAMBDA c : c \notin {"(", ")"})

\* the pattern finds a match somewhere in the character sequence l.
\* (^|\s|-)S($|\s|-) needs S with a start/space/hyphen before it and an
\* end/space/hyphen after it.
RegexFind(pattern, l) ==
    LET s == PatternAtoms(pattern.lit)
    IN  IF pattern.kind = "crna"
        THEN \/ Contains(l, Chars("APRN - CRNA"))
             \/ Contains(l, Chars("Certified Nurse Anesthetist"))
        ELSE \E i \in 1..(Len(l) - Len(s) + 1) :
                /\ SubSeq(l, i, i + Len(s) - 1) = s
                /\ (i = 1 \/ l[i - 1] \in {" ", "-"})
                /\ (i + Len(s) - 1 = Len(l) \/ l[i + Len(s)] \in {" ", "-"})

\* "newSpecialty" ~ $1 : the POSIX regular expression finds a match anywhere
\* in the label
RegexMatch(pattern, label) == RegexFind(pattern, Chars(label))

_get_profession_filter(profession, row) ==
    IF Truthy(profession) THEN row.newProfession = profession ELSE TRUE

(***************************************************************************)
(* The transaction table vmsrawscrape_prod.  A batch is n identical rows.  *)
(***************************************************************************)
\* HAVING COUNT(*) >= 5
MinSampleSize == 5
\* "startDate" >= NOW() - INTERVAL '3 months': the last 90 days (line 171)
LookbackDays == 90
\* the BETWEEN bounds of the three metrics
BillRateMin == 30
BillRateMax == 800
WeeklyPayMin == 1200
WeeklyPayMax == 15000
HourlyPayMin == 10
HourlyPayMax == 250

IsNull(x) == x = <<>>

\* x BETWEEN lo AND hi; NULL BETWEEN .. is unknown, which filters the row out
Between(x, lo, hi) == x # <<>> /\ lo <= x[1] /\ x[1] <= hi

\* the metric profiles of the rows the model holds
HiPay == [billRate |-> <<100>>, weeklyPay |-> <<2000>>, hourlyPay |-> <<50>>]
LoPay == [billRate |-> <<90>>, weeklyPay |-> <<1800>>, hourlyPay |-> <<45>>]

MkRow(sp, c, st, pay) ==
    [newSpecialty |-> sp, city |-> c, state |-> st,
     billRate |-> pay.billRate, weeklyPay |-> pay.weeklyPay,
     hourlyPay |-> pay.hourlyPay, ageDays |-> 10, newProfession |-> "Nursing"]

RowKinds ==
    {MkRow("RN - ICU", pl[1], pl[2], pay) :
        pl \in {<<"Buffalo", "NY">>, <<"Albany", "NY">>, <<"Austin", "TX">>},
        pay \in {HiPay, LoPay}}
    \cup {MkRow("ICU", "Buffalo", "NY", HiPay), MkRow("ICU", "Austin", "TX", HiPay)}
    \cup {MkRow("RN - NICU", "Buffalo", "NY", HiPay)}

Multiplicities == {3, 5, 17}

Batches == {[row |-> r, n |-> m] : r \in RowKinds, m \in Multiplicities}

RECURSIVE SubsetsUpTo(_, _)
SubsetsUpTo(S, k) ==
    IF k = 0 THEN {{}}
    ELSE LET smaller == SubsetsUpTo(S, k - 1)
         IN  smaller \cup {T \cup {x} : T \in smaller, x \in S}

Stores == SubsetsUpTo(Batches, MaxBatches)

(***************************************************************************)
(* SQL aggregates over a set of batches.                                   *)
(***************************************************************************)
RECURSIVE Count(_)
Count(bs) ==
    IF bs = {} THEN 0
    ELSE LET b == CHOOSE x \in bs : TRUE IN b.n + Count(bs \ {b})

RateColumn(rate_type) ==
    IF rate_type = "hourly_pay" THEN "hourlyPay"
    ELSE IF rate_type = "weekly_pay" THEN "weeklyPay"
    ELSE "billRate"

RateLabel(rate_type) ==
    IF rate_type = "hourly_pay" THEN "hourly pay"
    ELSE IF rate_type = "weekly_pay" THEN "weekly pay"
    ELSE "bill rate"

\* FloorPercentile with the weekly token left out of the pay tokens
FloorPercentile_HourlyOnly(rate_type) ==
    IF rate_type \in {"hourly_pay"} THEN 35 ELSE 25

\* line 182: floor_percentile, in hundredths
FloorPercentile(rate_type) ==
    IF rate_type \in {"weekly_pay", "hourly_pay"} THEN 35 ELSE 25

RECURSIVE SumCol(_, _)
SumCol(bs, col) ==
    IF bs = {} THEN 0
    ELSE LET b == CHOOSE x \in bs : TRUE
         IN  b.n * b.row[col][1] + SumCol(bs \ {b}, col)

\* AVG(col) over rows whose col is not null (the callers' WHERE ensures it)
Avg(bs, col) == Norm(<<SumCol(bs, col), Count(bs)>>)

\* the k-th smallest value of col (1-based) among the rows of bs
OrderStat(bs, col, k) ==
    LET vals == {b.row[col][1] : b \in bs}
        CountLE(v) == Count({b \in bs : b.row[col][1] <= v})
    IN  CHOOSE v \in vals :
            /\ CountLE(v) >= k
            /\ \A w \in vals : w < v => CountLE(w) < k

\* PERCENTILE_CONT(p/100) WITHIN GROUP (ORDER BY col): linear interpolation
\* between the order statistics around position p/100 * (n - 1)
PercentileCont(p, bs, col) ==
    LET n == Count(bs)
        pos == p * (n - 1)
        lo == pos \div 100
        fr == pos % 100
        vlo == OrderStat(bs, col, lo + 1)
        vhi == OrderStat(bs, col, IF lo + 2 <= n THEN lo + 2 ELSE n)
    IN  Norm(<<vlo * 100 + fr * (vhi - vlo), 100>>)

(***************************************************************************)
(* State.                                                                  *)
(***************************************************************************)
VARIABLES
    store,        \* the transaction table: a set of batches
    pool,         \* DatabaseService.pool is initialised
    parameters,   \* the QueryParameters of the request
    rr_pc,        \* get_rate_recommendation: where the coroutine stands
    rr_result,    \* its local `result`: <<>> (None) or <<row>>
    rr_return,    \* its return value: <<>> (None) or <<dict>>, once rr_pc = "done"
    rr_queries,   \* the tiers it has sent a query for, in order
    rr_fault,     \* the upstream failure it met: "none", "pool", "query"
    chat,         \* chat_endpoint's answer to the rate question
    f_parameters, \* generate_forecast_analysis: its QueryParameters
    f_pc,         \* where the coroutine stands
    f_state,      \* its local normalized_state
    f_requests,   \* the payloads posted to the forecasting endpoint, in order
    f_error,      \* the exception the primary request raised, "none" if none
    f_horizon,    \* the local selected_horizon has been assigned
    f_insights,   \* the insights of the primary request: <<>> or <<insights>>
    f_forecasts,  \* the local state_forecasts of the top-state retry
    f_outcome,    \* how the call ended: "pending", or returned / raised with a value
    db_call,      \* a call of another DatabaseService method: its name and arguments
    db_pc,        \* where that call stands: "idle", "start", ..., "done", "failed"
    db_local,     \* the locals it keeps from one query to the next: <<>> or <<record>>
    db_return,    \* its return value: <<>> (None) or <<value>>
    query,        \* chat_endpoint: the ChatQuery of the request it last handled
    cache,        \* cache_service.cache: cache key -> entry
    now           \* time.time(), in seconds since the service started

rrVars == <<store, pool, parameters, rr_pc, rr_result, rr_return, rr_queries, rr_fault, chat>>

fVars == <<f_parameters, f_pc, f_state, f_requests, f_error, f_horizon, f_insights,
           f_forecasts, f_outcome>>

dbVars == <<db_call, db_pc, db_local, db_return>>

epVars == <<query, cache, now>>

vars == <<store, pool, parameters, rr_pc, rr_result, rr_return, rr_queries, rr_fault, chat,
          f_parameters, f_pc, f_state, f_requests, f_error, f_horizon, f_insights,
          f_forecasts, f_outcome, db_call, db_pc, db_local, db_return, query, cache, now>>

\* no /chat request has been handled: nothing cached
EndpointIdle ==
    /\ query = [message |-> NoneVal]
    /\ cache = {}
    /\ now = 0

\* no other DatabaseService method is running
DbIdle ==
    /\ db_call = [method |-> NoneVal]
    /\ db_pc = "idle"
    /\ db_local = <<>>
    /\ db_return = <<>>

(***************************************************************************)
(* The three tier queries of get_rate_recommendation.                      *)
(***************************************************************************)
\* the WHERE conditions the three tiers share
WhereCommon(b, p) ==
    LET col == RateColumn(p.rate_type)
    IN  /\ RegexMatch(_normalize_specialty_for_query(p.specialty), b.row.newSpecialty)
        /\ ~IsNull(b.row[col])
        /\ Between(b.row.billRate, BillRateMin, BillRateMax)
        /\ Between(b.row.weeklyPay, WeeklyPayMin, WeeklyPayMax)
        /\ Between(b.row.hourlyPay, HourlyPayMin, HourlyPayMax)
        /\ b.row.ageDays <= LookbackDays
        /\ _get_profession_filter(p.profession, b.row)

\* StatRow with the two band factors exchanged
StatRow_SwappedBand(g, loc, p) ==
    LET col == RateColumn(p.rate_type)
    IN  [specialty        |-> (CHOOSE b \in g : TRUE).row.newSpecialty,
         location         |-> loc,
         recommended_min  |-> RScale(Avg(g, col), 1025),
         recommended_max  |-> RScale(Avg(g, col), 975),
         competitive_floor |-> PercentileCont(FloorPercentile(p.rate_type), g, col),
         market_average   |-> Avg(g, col),
         sample_size      |-> Count(g)]

\* StatRow with a band of 5% instead of 2.5%
StatRow_WideBand(g, loc, p) ==
    LET col == RateColumn(p.rate_type)
    IN  [specialty        |-> (CHOOSE b \in g : TRUE).row.newSpecialty,
         location         |-> loc,
         recommended_min  |-> RScale(Avg(g, col), 950),
         recommended_max  |-> RScale(Avg(g, col), 1050),
         competitive_floor |-> PercentileCont(FloorPercentile(p.rate_type), g, col),
         market_average   |-> Avg(g, col),
         sample_size      |-> Count(g)]

\* the SELECT list over one group
StatRow(g, loc, p) ==
    LET col == RateColumn(p.rate_type)
    IN  [specialty        |-> (CHOOSE b \in g : TRUE).row.newSpecialty,
         location         |-> loc,
         recommended_min  |-> RScale(Avg(g, col), 975),
         recommended_max  |-> RScale(Avg(g, col), 1025),
         competitive_floor |-> PercentileCont(FloorPercentile(p.rate_type), g, col),
         market_average   |-> Avg(g, col),
         sample_size      |-> Count(g)]

\* ORDER BY COUNT(*) DESC LIMIT 1: a group no other group outnumbers
Largest(groups) == {g \in groups : \A h \in groups : Count(h) <= Count(g)}

\* HAVING COUNT(*) >= 5
Having(groups) == {g \in groups : Count(g) >= MinSampleSize}

CityRows(st, p) ==
    {b \in st : /\ WhereCommon(b, p)
                /\ Lower(b.row.city) = Lower(p.city)
                /\ Lower(b.row.state) = Lower(p.state)}

\* GROUP BY "newSpecialty", city, state
CityGroups(st, p) ==
    LET rows == CityRows(st, p)
    IN  {{b \in rows : /\ b.row.newSpecialty = k.row.newSpecialty
                       /\ b.row.city = k.row.city
                       /\ b.row.state = k.row.state} : k \in rows}

\* the rows execute_one can give for the city + state query
CityQuery(st, p) ==
    {StatRow(g, (CHOOSE b \in g : TRUE).row.state, p) : g \in Largest(Having(CityGroups(st, p)))}

StateCode(p) == IF Truthy(p.state) THEN p.state ELSE p.location

StateRows(st, p) ==
    {b \in st : WhereCommon(b, p) /\ Lower(b.row.state) = Lower(StateCode(p))}

\* GROUP BY "newSpecialty", state
StateGroups(st, p) ==
    LET rows == StateRows(st, p)
    IN  {{b \in rows : /\ b.row.newSpecialty = k.row.newSpecialty
                       /\ b.row.state = k.row.state} : k \in rows}

\* the state query has ORDER BY COUNT(*) DESC LIMIT 1 and no HAVING clause
StateQuery(st, p) ==
    {StatRow(g, (CHOOSE b \in g : TRUE).row.state, p) : g \in Largest(StateGroups(st, p))}

NationalRows(st, p) == {b \in st : WhereCommon(b, p)}

\* GROUP BY "newSpecialty"
NationalGroups(st, p) ==
    LET rows == NationalRows(st, p)
    IN  {{b \in rows : b.row.newSpecialty = k.row.newSpecialty} : k \in rows}

\* the national query has HAVING COUNT(*) >= 5 and neither ORDER BY nor LIMIT:
\* fetchrow gives the first row of an unordered result, any qualifying group
NationalQuery(st, p) ==
    {StatRow(g, "National", p) : g \in Having(NationalGroups(st, p))}

\* execute_one: the first row, or None when the query gave no row
\* (an Optional[dict] is <<>> for None and <<d>> for the dict d)
ExecuteOne(rowset) == IF rowset = {} THEN {<<>>} ELSE {<<r>> : r \in rowset}

\* the dict get_rate_recommendation returns for a row
ReturnDict(row, p) ==
    [specialty         |-> row.specialty,
     location          |-> row.location,
     recommended_min   |-> row.recommended_min,
     recommended_max   |-> row.recommended_max,
     competitive_floor |-> row.competitive_floor,
     market_average    |-> row.market_average,
     rate_type         |-> RateLabel(p.rate_type),
     sample_size       |-> row.sample_size]

(***************************************************************************)
(* get_rate_recommendation, one action per data-store round trip.          *)
(***************************************************************************)
\* the except clause: any exception of a query is printed and None returned
RR_Except ==
    /\ rr_pc' = "done"
    /\ rr_return' = <<>>
    /\ rr_fault' = "query"
    /\ UNCHANGED <<store, pool, parameters, rr_result, chat, fVars, dbVars, epVars>>

\* lines 132-182: the pool check, the parameters, the specialty check
RR_Begin ==
    /\ rr_pc = "start"
    /\ IF ~pool
       THEN /\ rr_pc' = "done"
            /\ rr_return' = <<>>
            /\ rr_fault' = "pool"
       ELSE IF ~Truthy(parameters.specialty)
       THEN /\ rr_pc' = "done"
            /\ rr_return' = <<>>
            /\ rr_fault' = rr_fault
       ELSE /\ rr_pc' = "city"
            /\ UNCHANGED <<rr_return, rr_fault>>
    /\ UNCHANGED <<store, pool, parameters, rr_result, rr_queries, chat, fVars, dbVars, epVars>>

\* lines 184-223: the city + state tier
RR_CityTier ==
    /\ rr_pc = "city"
    /\ IF Truthy(parameters.city) /\ Truthy(parameters.state)
       THEN /\ rr_queries' = Append(rr_queries, "city")
            /\ \/ /\ rr_result' \in ExecuteOne(CityQuery(store, parameters))
                  /\ rr_pc' = "state"
                  /\ UNCHANGED <<store, pool, parameters, rr_return, rr_fault, chat, fVars, dbVars, epVars>>
               \/ RR_Except
       ELSE /\ rr_pc' = "state"
            /\ UNCHANGED <<store, pool, parameters, rr_result, rr_return, rr_queries,
                           rr_fault, chat, fVars, dbVars, epVars>>

\* lines 225-260: the state tier
RR_StateTier ==
    /\ rr_pc = "state"
    /\ IF rr_result = <<>> /\ (Truthy(parameters.state) \/ Truthy(parameters.location))
       THEN /\ rr_queries' = Append(rr_queries, "state")
            /\ \/ /\ rr_result' \in ExecuteOne(StateQuery(store, parameters))
                  /\ rr_pc' = "national"
                  /\ UNCHANGED <<store, pool, parameters, rr_return, rr_fault, chat, fVars, dbVars, epVars>>
               \/ RR_Except
       ELSE /\ rr_pc' = "national"
            /\ UNCHANGED <<store, pool, parameters, rr_result, rr_return, rr_queries,
                           rr_fault, chat, fVars, dbVars, epVars>>

\* lines 262-313: the national tier, and the return
RR_NationalTier ==
    /\ rr_pc = "national"
    /\ IF rr_result = <<>>
       THEN /\ rr_queries' = Append(rr_queries, "national")
            /\ \/ /\ rr_result' \in ExecuteOne(NationalQuery(store, parameters))
                  /\ rr_pc' = "done"
                  /\ rr_return' = IF rr_result' = <<>> THEN <<>>
                                  ELSE <<ReturnDict(rr_result'[1], parameters)>>
                  /\ UNCHANGED <<store, pool, parameters, rr_fault, chat, fVars, dbVars, epVars>>
               \/ RR_Except
       ELSE /\ rr_pc' = "done"
            /\ rr_return' = <<ReturnDict(rr_result[1], parameters)>>
            /\ UNCHANGED <<store, pool, parameters, rr_result, rr_queries, rr_fault, chat, fVars, dbVars, epVars>>

(***************************************************************************)
(* chat_endpoint: the arithmetic of rate_comparison and rate_impact on the *)
(* recommendation (src/main.py).  A ZeroDivisionError leaves the handler   *)
(* through `except Exception` as HTTP 500.                                 *)
(***************************************************************************)
ProposedRates == {80, 100, 120}

HasLocation(p) == Truthy(p.location) \/ Truthy(p.city) \/ Truthy(p.state)

\* main.py 810-822: percentage_diff = (proposed - avg) / avg * 100
RateComparison(rec, proposed) ==
    IF rec = <<>> THEN [kind |-> "no_data", value |-> <<>>]
    ELSE LET market_avg == rec[1].market_average
         IN  IF RIsZero(market_avg) THEN [kind |-> "no_average", value |-> <<>>]
             ELSE [kind |-> "answer",
                   value |-> <<RTimes(RDiv(RSub(RInt(proposed), market_avg), market_avg),
                                      100)>>]

\* main.py 918-941: the estimated percentile of the proposed rate
RateImpact(rec, proposed) ==
    IF rec = <<>> THEN [kind |-> "no_data", value |-> <<>>]
    ELSE LET market_avg == rec[1].market_average
             competitive_floor == rec[1].competitive_floor
             pr == RInt(proposed)
         IN  IF RIsZero(market_avg) THEN [kind |-> "no_average", value |-> <<>>]
             ELSE IF RLt(RInt(0), competitive_floor)
             THEN IF RLt(pr, competitive_floor)
                  THEN [kind |-> "answer",
                        value |-> <<RTimes(RDiv(pr, competitive_floor), 25)>>]
                  ELSE IF RIsZero(RSub(market_avg, competitive_floor))
                  THEN [kind |-> "ZeroDivisionError", value |-> <<>>]
                  ELSE [kind |-> "answer",
                        value |-> <<RAdd(RInt(25),
                                         RTimes(RDiv(RSub(pr, competitive_floor),
                                                     RSub(market_avg, competitive_floor)),
                                                25))>>]
             ELSE [kind |-> "answer",
                   value |-> <<RTimes(RDiv(pr, market_avg), 50)>>]

\* the rate_comparison branch once get_rate_recommendation has returned
ChatRateComparison ==
    /\ rr_pc = "done"
    /\ chat.kind = "pending"
    /\ Truthy(parameters.specialty) /\ HasLocation(parameters)
    /\ \E proposed \in ProposedRates :
          chat' = [query_type |-> "rate_comparison", proposed_rate |-> proposed]
                  @@ RateComparison(rr_return, proposed)
    /\ UNCHANGED <<store, pool, parameters, rr_pc, rr_result, rr_return, rr_queries, rr_fault,
                   fVars, dbVars, epVars>>

\* the rate_impact branch once get_rate_recommendation has returned
ChatRateImpact ==
    /\ rr_pc = "done"
    /\ chat.kind = "pending"
    /\ Truthy(parameters.specialty) /\ HasLocation(parameters)
    /\ \E proposed \in ProposedRates :
          chat' = [query_type |-> "rate_impact", proposed_rate |-> proposed]
                  @@ RateImpact(rr_return, proposed)
    /\ UNCHANGED <<store, pool, parameters, rr_pc, rr_result, rr_return, rr_queries, rr_fault,
                   fVars, dbVars, epVars>>

(***************************************************************************)
(* ForecastingService (src/forecasting_integration.py).                    *)
(***************************************************************************)
\* the keys of locum_specialty_mapping among the specialties of the model
map_locum_specialty(specialty, profession) ==
    IF profession = "Locum/Tenens"
       /\ specialty \in {"CRNA", "Certified Nurse Anesthetist"}
    THEN "Certified Nurse Anesthetist (CRNA)"
    ELSE specialty

known_prefixes ==
    {"RN - ", "APRN - ", "MD/DO - ", "PA - ", "CRNA - ", "Dentistry - ",
     "Behavioral Health - ", "Clinical "}

locum_prefixes ==
    {"APRN - ", "MD/DO - ", "PA - ", "CRNA - ", "Certified Nurse Anesthetist",
     "Dentistry - ", "Behavioral Health - ", "Clinical ", "Psychologist",
     "Pharmacist", "Physicist", "Optometrist", "Exercise Physiologist"}

standalone_locum ==
    {"PA", "CRNA", "Oncology", "Orthopedic", "Cardiology", "General Practice",
     "Psychologist Assistant", "School Psychologist"}

\* f"RN - {s}" on the specialties of the model
WithRNPrefix(s) ==
    CASE s = "ICU"  -> "RN - ICU"
      [] s = "CRNA" -> "RN - CRNA"
      [] OTHER      -> s

\* the label get_rate_forecast posts (lines 116-140), which is also the key
\* generate_forecast_analysis looks up (lines 429-445)
FormatSpecialty(specialty, profession) ==
    LET mapped_spec == map_locum_specialty(specialty, profession)
        has_prefix == \E pre \in known_prefixes : StartsWith(mapped_spec, pre)
        is_locum_by_prefix == \E pre \in locum_prefixes : StartsWith(mapped_spec, pre)
        is_locum_exact == mapped_spec \in standalone_locum
    IN  IF has_prefix \/ is_locum_by_prefix \/ is_locum_exact
           \/ profession = "Locum/Tenens"
        THEN mapped_spec
        ELSE WithRNPrefix(mapped_spec)

\* the key the top-state retry looks up (lines 541-548)
FormatSpecialtyCheck(specialty, profession) ==
    IF specialty \in {"CRNA", "CAA", "PA", "NP", "FNP", "AGACNP", "PMHNP"}
       \/ profession = "Locum/Tenens"
    THEN specialty
    ELSE IF ~StartsWith(specialty, "RN - ") THEN WithRNPrefix(specialty)
    ELSE specialty

\* the payload of one POST /forecast
Payload(specialty, profession, states) ==
    [specialties |-> FormatSpecialty(specialty, profession), states |-> states]

\* What the endpoint can answer.  A 200 answer is keyed by the label posted
\* and holds, under it, an entry for the state posted and one for "national";
\* an entry is "absent", "good" (history ending at 100), "zero" (history
\* ending at 0), or "error".
OkResponse(payload, se, ne) ==
    [status |-> "ok", key |-> payload.specialties, state_entry |-> se, national_entry |-> ne]

FailResponse(tag) ==
    [status |-> tag, key |-> "", state_entry |-> "absent", national_entry |-> "absent"]

PrimaryResponses(payload) ==
    {FailResponse(t) : t \in {"insufficient", "data_fetch", "timeout"}}
    \cup (IF payload.states = <<>>
          THEN {OkResponse(payload, "absent", ne) : ne \in {"good", "zero", "absent"}}
          ELSE {OkResponse(payload, "good", "absent"), OkResponse(payload, "zero", "absent"),
                OkResponse(payload, "error", "absent"), OkResponse(payload, "absent", "good"),
                OkResponse(payload, "absent", "absent")})

SupplementResponses(payload) ==
    {FailResponse(t) : t \in {"insufficient", "timeout"}}
    \cup {OkResponse(payload, "absent", ne) : ne \in {"good", "absent"}}

TopStateResponses(payload) ==
    {FailResponse(t) : t \in {"insufficient", "timeout"}}
    \cup {OkResponse(payload, "good", "absent"), OkResponse(payload, "absent", "good")}

\* the message of the exception get_rate_forecast raises (lines 186-211)
ForecastException(response, states) ==
    CASE response.status = "insufficient" ->
            IF states = <<>> THEN "Unable to generate national forecast"
            ELSE "Not enough historical data"
      [] response.status = "data_fetch" -> "Failed to fetch data"
      [] response.status = "timeout" -> "request timed out"

\* growth = (forecast - current) / current * 100 if current > 0 else 0
GrowthRate(forecast, current) ==
    IF current > 0 THEN RTimes(RDiv(RInt(forecast - current), RInt(current)), 100)
    ELSE RInt(0)

ErrorInsights(msg) ==
    [error |-> msg, geography |-> NoneVal, current_value |-> 0, growth_12_weeks |-> RInt(0)]

\* extract_forecast_insights (lines 213-308).  `geography` records the key of
\* the response the insights were read from.
extract_forecast_insights(forecast_data, specialty, state) ==
    LET found == \/ forecast_data.key = specialty
                 \/ Contains(UpperSeq(Chars(forecast_data.key)), UpperSeq(Chars(specialty)))
        hasState == found /\ state # "national" /\ forecast_data.state_entry # "absent"
        hasNational == found /\ forecast_data.national_entry # "absent"
        entry == IF hasState THEN forecast_data.state_entry
                 ELSE IF hasNational THEN forecast_data.national_entry
                 ELSE "absent"
        geo == IF hasState THEN state ELSE "national"
        current_value == IF entry = "good" THEN 100 ELSE 0
    IN  IF entry = "error" THEN ErrorInsights("entry error")
        ELSE IF entry = "absent" THEN ErrorInsights("No forecast data available")
        ELSE [error |-> "", geography |-> geo, current_value |-> current_value,
              growth_12_weeks |-> GrowthRate(110, current_value)]

(***************************************************************************)
(* ChatbotForecastIntegration.generate_forecast_analysis.                  *)
(***************************************************************************)
\* str.upper() on the two-letter state codes of the model
UpperState(st) ==
    CASE st = "ca" -> "CA"
      [] st = "ny" -> "NY"
      [] OTHER     -> st

\* len(s) == 2 and s.isalpha() on the place names of the model
IsTwoLetterCode(s) == s \in {"CA", "TX", "FL", "NY", "PA", "ca", "ny"}

obvious_cities(city_lower) ==
    CASE city_lower = "miami"   -> "FL"
      [] city_lower = "houston" -> "TX"
      [] OTHER                  -> NoneVal

\* lines 364-396: the state to ask for, NoneVal for national, or the
\* request for clarification
NormalizeState(p) ==
    IF Truthy(p.state) THEN [error |-> "", state |-> UpperState(p.state)]
    ELSE IF Truthy(p.location) /\ IsTwoLetterCode(p.location)
    THEN [error |-> "", state |-> UpperState(p.location)]
    ELSE IF Truthy(p.city)
    THEN IF obvious_cities(p.city) # NoneVal
         THEN [error |-> "", state |-> obvious_cities(p.city)]
         ELSE [error |-> "Please specify which state", state |-> NoneVal]
    ELSE IF Truthy(p.location)
    THEN [error |-> "Please specify which state", state |-> NoneVal]
    ELSE [error |-> "", state |-> NoneVal]

StatesArg(st) == IF st = NoneVal THEN <<>> ELSE <<st>>

\* all_top_states with a sixth state
all_top_states_Six == <<"CA", "TX", "FL", "NY", "PA", "OH">>

all_top_states == <<"CA", "TX", "FL", "NY", "PA">>

\* TopStates with the list taken from its end
TopStates_Reversed(normalized_state) ==
    SelectSeq(<<"PA", "NY", "FL", "TX", "CA">>, LAMBDA st : st # normalized_state)

\* line 528: the top states without the state that failed
TopStates(normalized_state) ==
    SelectSeq(all_top_states, LAMBDA st : st # normalized_state)

\* UsesTopStateFallback without the test for "CRNA" in the specialty
UsesTopStateFallback_AnySpecialty(specialty, error_msg) ==
    error_msg \in {"Not enough historical data", "Unable to generate national forecast"}

\* lines 520-521: the condition of the top-state retry
UsesTopStateFallback(specialty, error_msg) ==
    /\ Contains(UpperSeq(Chars(specialty)), Chars("CRNA"))
    /\ error_msg \in {"Not enough historical data", "Unable to generate national forecast"}

ErrorResult(msg) ==
    [kind |-> "error", error |-> msg, forecast_insights |-> <<>>,
     location |-> NoneVal, requested_location |-> NoneVal,
     is_multi_state_fallback |-> FALSE, multi_state_forecasts |-> <<>>,
     dual_forecast |-> FALSE, has_limited_state_data |-> FALSE]

\* lines 497-513
\* has_limited_state_data is state_sample_size < 3 for a state request, and
\* state_sample_size is always 0
ForecastResult(insights, national_insights, normalized_state) ==
    [kind |-> "forecast", error |-> "", forecast_insights |-> <<insights>>,
     location |-> IF normalized_state # NoneVal THEN normalized_state ELSE "national",
     requested_location |-> NoneVal,
     is_multi_state_fallback |-> FALSE, multi_state_forecasts |-> <<>>,
     dual_forecast |-> national_insights # <<>>,
     has_limited_state_data |-> normalized_state # NoneVal]

\* lines 580-594
MultiStateResult(state_forecasts, normalized_state) ==
    [kind |-> "multi_state", error |-> "",
     forecast_insights |-> <<state_forecasts[1].insights>>,
     location |-> "multi-state",
     requested_location |-> IF normalized_state # NoneVal THEN normalized_state
                            ELSE "national",
     is_multi_state_fallback |-> TRUE, multi_state_forecasts |-> state_forecasts,
     dual_forecast |-> FALSE, has_limited_state_data |-> FALSE]

Returned(v) == [kind |-> "returned", value |-> v, exception |-> ""]

Raised(e) == [kind |-> "raised", value |-> ErrorResult(""), exception |-> e]

\* lines 352-356 and 364-396
FA_Begin ==
    /\ f_pc = "start"
    /\ IF ~Truthy(f_parameters.specialty)
       THEN /\ f_outcome' = Returned(ErrorResult("Specialty required for forecast analysis"))
            /\ f_pc' = "done"
            /\ f_state' = f_state
       ELSE IF NormalizeState(f_parameters).error # ""
       THEN /\ f_outcome' = Returned(ErrorResult(NormalizeState(f_parameters).error))
            /\ f_pc' = "done"
            /\ f_state' = f_state
       ELSE /\ f_state' = NormalizeState(f_parameters).state
            /\ f_pc' = "primary"
            /\ f_outcome' = f_outcome
    /\ UNCHANGED <<rrVars, epVars, dbVars, f_parameters, f_requests, f_error, f_horizon, f_insights,
                   f_forecasts>>

\* lines 398-513: the primary request and, without a supplement, the return
FA_Primary ==
    /\ f_pc = "primary"
    /\ LET p == f_parameters
           payload == Payload(p.specialty, p.profession, StatesArg(f_state))
           location_key == IF f_state # NoneVal THEN f_state ELSE "national"
           should_include_national == p.profession \in {"Locum/Tenens", "Allied", "Therapy"}
       IN  /\ f_requests' = Append(f_requests, payload)
           /\ \E response \in PrimaryResponses(payload) :
                 IF response.status # "ok"
                 THEN /\ f_error' = ForecastException(response, payload.states)
                      /\ f_pc' = "except"
                      /\ UNCHANGED <<f_horizon, f_insights, f_outcome>>
                 ELSE LET insights == extract_forecast_insights(response,
                                          FormatSpecialty(p.specialty, p.profession),
                                          location_key)
                      IN  IF insights.error # ""
                          THEN /\ f_outcome' = Returned(ErrorResult(insights.error))
                               /\ f_pc' = "done"
                               /\ UNCHANGED <<f_error, f_horizon, f_insights>>
                          \* state_sample_size (line 460) is 0 whatever the
                          \* insights: they hold no "forecast" key
                          ELSE IF should_include_national /\ f_state # NoneVal
                          THEN /\ f_insights' = <<insights>>
                               /\ f_pc' = "supplement"
                               /\ UNCHANGED <<f_error, f_horizon, f_outcome>>
                          ELSE /\ f_horizon' = TRUE
                               /\ f_insights' = <<insights>>
                               /\ f_outcome' = Returned(ForecastResult(insights, <<>>, f_state))
                               /\ f_pc' = "done"
                               /\ f_error' = f_error
    /\ UNCHANGED <<rrVars, epVars, dbVars, f_parameters, f_state, f_forecasts>>

\* lines 463-513: the national supplement; its own failure is swallowed
FA_Supplement ==
    /\ f_pc = "supplement"
    /\ LET p == f_parameters
           payload == Payload(p.specialty, p.profession, <<>>)
       IN  /\ f_requests' = Append(f_requests, payload)
           /\ \E response \in SupplementResponses(payload) :
                 LET got == IF response.status # "ok" THEN ErrorInsights("exception")
                            ELSE extract_forecast_insights(response,
                                     FormatSpecialty(p.specialty, p.profession), "national")
                     national_insights == IF got.error # "" THEN <<>> ELSE <<got>>
                 IN  f_outcome' = Returned(ForecastResult(f_insights[1],
                                                          national_insights, f_state))
    /\ f_horizon' = TRUE
    /\ f_pc' = "done"
    /\ UNCHANGED <<rrVars, epVars, dbVars, f_parameters, f_state, f_error, f_insights, f_forecasts>>

\* lines 515-529 and 599: the except clause up to the retry loop
FA_Except ==
    /\ f_pc = "except"
    /\ IF UsesTopStateFallback(f_parameters.specialty, f_error)
       THEN /\ f_pc' = "top"
            /\ f_outcome' = f_outcome
       ELSE /\ f_pc' = "done"
            /\ f_outcome' = Returned(ErrorResult("Forecast analysis failed"))
    /\ UNCHANGED <<rrVars, epVars, dbVars, f_parameters, f_state, f_requests, f_error, f_horizon, f_insights,
                   f_forecasts>>

\* lines 570-599: what follows the retry loop.  selected_horizon is assigned
\* on line 495 only; reading it unassigned raises UnboundLocalError.
FallbackOutcome(state_forecasts, normalized_state, horizon_assigned) ==
    IF Len(state_forecasts) >= 2
    THEN IF horizon_assigned
         THEN Returned(MultiStateResult(state_forecasts, normalized_state))
         ELSE Raised("UnboundLocalError")
    ELSE Returned(ErrorResult("Forecast analysis failed"))

\* TopStatePayload with the state left out of the payload: a national request
TopStatePayload_NoState(specialty, profession, st) == Payload(specialty, profession, <<>>)

\* the payload of the retry for one top state (lines 533-539)
TopStatePayload(specialty, profession, st) == Payload(specialty, profession, <<st>>)

\* lines 531-599: one pass of the retry loop and, after its last pass, the
\* return
FA_TopState ==
    /\ f_pc = "top"
    /\ LET p == f_parameters
           top_states == TopStates(f_state)
           idx == Len(f_requests)
           st == top_states[idx]
           payload == TopStatePayload(p.specialty, p.profession, st)
       IN  /\ f_requests' = Append(f_requests, payload)
           /\ \E response \in TopStateResponses(payload) :
                 LET got == IF response.status # "ok" THEN ErrorInsights("exception")
                            ELSE extract_forecast_insights(response,
                                     FormatSpecialtyCheck(p.specialty, p.profession), st)
                     state_forecasts == IF got.error = ""
                                        THEN Append(f_forecasts, [state |-> st, insights |-> got])
                                        ELSE f_forecasts
                     finished == (got.error = "" /\ Len(state_forecasts) >= 3)
                                 \/ idx = Len(top_states)
                 IN  /\ f_forecasts' = state_forecasts
                     /\ IF finished
                        THEN /\ f_pc' = "done"
                             /\ f_outcome' = FallbackOutcome(state_forecasts, f_state, f_horizon)
                        ELSE /\ f_pc' = "top"
                             /\ f_outcome' = f_outcome
    /\ UNCHANGED <<rrVars, epVars, dbVars, f_parameters, f_state, f_error, f_horizon, f_insights>>

ForecastIdle ==
    /\ f_parameters = [specialty |-> NoneVal, profession |-> NoneVal, city |-> NoneVal,
                       state |-> NoneVal, location |-> NoneVal]
    /\ f_pc = "idle"
    /\ f_state = NoneVal
    /\ f_requests = <<>>
    /\ f_error = "none"
    /\ f_horizon = FALSE
    /\ f_insights = <<>>
    /\ f_forecasts = <<>>
    /\ f_outcome = [kind |-> "pending", value |-> ErrorResult(""), exception |-> ""]

RateIdle ==
    /\ store = {}
    /\ pool = TRUE
    /\ parameters = [specialty |-> NoneVal, rate_type |-> NoneVal, profession |-> NoneVal,
                     city |-> NoneVal, state |-> NoneVal, location |-> NoneVal]
    /\ rr_pc = "idle"
    /\ rr_result = <<>>
    /\ rr_return = <<>>
    /\ rr_queries = <<>>
    /\ rr_fault = "none"
    /\ chat = [kind |-> "pending"]

ForecastLocations ==
    {[city |-> NoneVal,   state |-> NoneVal, location |-> NoneVal],
     [city |-> NoneVal,   state |-> "NY",    location |-> NoneVal],
     [city |-> NoneVal,   state |-> "ca",    location |-> NoneVal],
     [city |-> "miami",   state |-> NoneVal, location |-> NoneVal],
     [city |-> "buffalo", state |-> NoneVal, location |-> NoneVal]}

ForecastParameters ==
    {[specialty |-> sp, profession |-> pr] @@ loc :
        sp \in {"ICU", "CRNA", NoneVal},
        pr \in {NoneVal, "Locum/Tenens", "Allied"},
        loc \in ForecastLocations}

InitForecast ==
    /\ EndpointIdle
    /\ RateIdle
    /\ DbIdle
    /\ f_parameters \in ForecastParameters
    /\ f_pc = "start"
    /\ f_state = NoneVal
    /\ f_requests = <<>>
    /\ f_error = "none"
    /\ f_horizon = FALSE
    /\ f_insights = <<>>
    /\ f_forecasts = <<>>
    /\ f_outcome = [kind |-> "pending", value |-> ErrorResult(""), exception |-> ""]

NextForecast ==
    \/ FA_Begin
    \/ FA_Primary
    \/ FA_Supplement
    \/ FA_Except
    \/ FA_TopState

SpecForecast == InitForecast /\ [][NextForecast]_vars

(***************************************************************************)
(* The rate specification.                                                 *)
(***************************************************************************)
Locations ==
    {[city |-> NoneVal,   state |-> NoneVal, location |-> NoneVal],
     [city |-> "buffalo", state |-> "NY",    location |-> NoneVal],
     [city |-> NoneVal,   state |-> "NY",    location |-> NoneVal],
     [city |-> NoneVal,   state |-> NoneVal, location |-> "NY"],
     [city |-> "buffalo", state |-> NoneVal, location |-> NoneVal]}

\* the rate_type tokens of the model: absent, the two pay tokens, the bill
\* token and one the selector does not know
RateTypes == {NoneVal, "weekly_pay", "hourly_pay", "bill_rate", "salary"}

Parameters ==
    {[specialty |-> "ICU", rate_type |-> rt, profession |-> NoneVal] @@ loc :
        rt \in RateTypes, loc \in Locations}
    \cup {[specialty |-> NoneVal, rate_type |-> NoneVal, profession |-> NoneVal] @@ loc :
             loc \in Locations}

Init ==
    /\ EndpointIdle
    /\ store \in Stores
    /\ pool \in BOOLEAN
    /\ parameters \in Parameters
    /\ rr_pc = "start"
    /\ rr_result = <<>>
    /\ rr_return = <<>>
    /\ rr_queries = <<>>
    /\ rr_fault = "none"
    /\ chat = [kind |-> "pending"]
    /\ ForecastIdle
    /\ DbIdle

Next ==
    \/ RR_Begin
    \/ RR_CityTier
    \/ RR_StateTier
    \/ RR_NationalTier
    \/ ChatRateComparison
    \/ ChatRateImpact

Spec == Init /\ [][Next]_vars

(***************************************************************************)
(* Properties of get_rate_recommendation and of the rate arithmetic.       *)
(***************************************************************************)
Range(q) == {q[i] : i \in DOMAIN q}

Last(q) == q[Len(q)]

\* the rows the query of tier t can give on the current table
TierQuery(t) ==
    CASE t = "city"     -> CityQuery(store, parameters)
      [] t = "state"    -> StateQuery(store, parameters)
      [] t = "national" -> NationalQuery(store, parameters)

\* the groups the query of tier t selects from
TierGroups(t) ==
    CASE t = "city"     -> Having(CityGroups(store, parameters))
      [] t = "state"    -> StateGroups(store, parameters)
      [] t = "national" -> Having(NationalGroups(store, parameters))

TierRank(t) == CASE t = "city" -> 1 [] t = "state" -> 2 [] t = "national" -> 3

RR_Returned == rr_pc = "done" /\ rr_return # <<>>

\* get_rate_recommendation ran all its queries without an upstream failure
RR_Completed ==
    rr_pc = "done" /\ rr_fault = "none" /\ pool /\ Truthy(parameters.specialty)

BothGiven == Truthy(parameters.city) /\ Truthy(parameters.state)

StateGiven == Truthy(parameters.state) \/ Truthy(parameters.location)

\* C1: every non-None result of get_rate_recommendation has sample_size >= 5;
\* no tier returns statistics of a grouping with fewer than 5 rows.
C1_MinSampleEveryTier ==
    RR_Returned => rr_return[1].sample_size >= MinSampleSize

\* The order of the scopes (the part of C2 that does not speak of usable
\* groups): city+state only when both are given, state when a state or a
\* location is given, then national; a scope is queried only when every
\* narrower scope queried gave no row, and the result is the row of the last
\* scope queried.  With 3 rows in the city scope and 20 rows (one grouping)
\* in the state scope the result is the state scope's, sample_size = 20.
TierOrder ==
    LET q == rr_queries
    IN  /\ \A i, j \in DOMAIN q : i < j => TierRank(q[i]) < TierRank(q[j])
        /\ "city" \in Range(q) => BothGiven
        /\ "state" \in Range(q) => StateGiven
        /\ \A i \in 1..(Len(q) - 1) : TierQuery(q[i]) = {}
        /\ RR_Completed =>
              /\ "city" \in Range(q) <=> BothGiven
              /\ "state" \in Range(q) <=>
                    (StateGiven /\ (BothGiven => CityQuery(store, parameters) = {}))
              /\ "national" \in Range(q) <=>
                    /\ BothGiven => CityQuery(store, parameters) = {}
                    /\ StateGiven => StateQuery(store, parameters) = {}
              /\ rr_return # <<>> => rr_result[1] \in TierQuery(Last(q))
              /\ rr_return = <<>> => TierQuery(Last(q)) = {}
        /\ ( /\ RR_Completed
             /\ BothGiven
             /\ Count(CityRows(store, parameters)) = 3
             /\ Count(StateRows(store, parameters)) = 20
             /\ Cardinality(StateGroups(store, parameters)) = 1 )
           => /\ q = <<"city", "state">>
              /\ rr_return # <<>>
              /\ rr_return[1].sample_size = 20
              /\ rr_return[1].location = "NY"

TierOrder_Witness ==
    /\ RR_Completed
    /\ rr_queries = <<"city", "state">>
    /\ Count(CityRows(store, parameters)) = 3
    /\ rr_return # <<>>
    /\ rr_return[1].sample_size = 20

\* the groupings of scope t the request makes eligible, before any threshold
ScopeGroups(t) ==
    CASE t = "city"     -> IF BothGiven THEN CityGroups(store, parameters) ELSE {}
      [] t = "state"    -> IF StateGiven THEN StateGroups(store, parameters) ELSE {}
      [] t = "national" -> NationalGroups(store, parameters)

\* scope t holds a usable group: one of at least MinSampleSize rows
Usable(t) == \E g \in ScopeGroups(t) : Count(g) >= MinSampleSize

\* C2: the result is that of the first scope, in the order city+state, state,
\* national, that yields a usable group, and no broader scope is queried;
\* when no scope yields one there is no result.
C2_FirstUsableScope ==
    RR_Completed =>
        IF \E t \in {"city", "state", "national"} : Usable(t)
        THEN LET first == CHOOSE t \in {"city", "state", "national"} :
                              /\ Usable(t)
                              /\ \A u \in {"city", "state", "national"} :
                                    Usable(u) => TierRank(t) <= TierRank(u)
             IN  /\ rr_return # <<>>
                 /\ Last(rr_queries) = first
                 /\ rr_result[1] \in TierQuery(first)
        ELSE rr_return = <<>>

\* C6: an unreachable or failing data store is reported as something other
\* than the no-result None that a scope with too few rows gives.
C6_UpstreamFailureDistinct ==
    (rr_pc = "done" /\ rr_fault # "none") => rr_return # <<>>

\* C8: no statistic computation ends in a division by zero.
C8_NoZeroDivision ==
    chat.kind # "ZeroDivisionError"

\* C9: recommended_min <= market_average <= recommended_max in every
\* non-None result, whichever tier gave it and whichever metric is active.
C9_BandBracketsAverage ==
    RR_Returned =>
        /\ RLeq(rr_return[1].recommended_min, rr_return[1].market_average)
        /\ RLeq(rr_return[1].market_average, rr_return[1].recommended_max)

C9_Witness ==
    /\ RR_Returned
    /\ parameters.rate_type = "weekly_pay"
    /\ Last(rr_queries) = "national"
    /\ RLt(rr_return[1].recommended_min, rr_return[1].market_average)
    /\ RLt(rr_return[1].market_average, rr_return[1].recommended_max)

\* C10: recommended_min = market_average * 0.975 and recommended_max =
\* market_average * 1.025, and average, band and sample size are those of one
\* grouping of the winning tier; 5 city rows averaging 100 give 97.50 and
\* 102.50.
C10_BandIsAveragePlusMinus ==
    RR_Returned =>
        LET r == rr_return[1]
            col == RateColumn(parameters.rate_type)
        IN  /\ REq(r.recommended_min, RScale(r.market_average, 975))
            /\ REq(r.recommended_max, RScale(r.market_average, 1025))
            /\ \E g \in TierGroups(Last(rr_queries)) :
                  /\ \A b \in g : b.row.newSpecialty = r.specialty
                  /\ r.sample_size = Count(g)
                  /\ REq(r.market_average, Avg(g, col))
                  /\ REq(r.recommended_min, RScale(Avg(g, col), 975))
                  /\ REq(r.recommended_max, RScale(Avg(g, col), 1025))
            /\ ( /\ Last(rr_queries) = "city"
                 /\ r.sample_size = 5
                 /\ REq(r.market_average, RInt(100)) )
               => /\ REq(r.recommended_min, <<9750, 100>>)
                  /\ REq(r.recommended_max, <<10250, 100>>)

C10_Witness ==
    /\ RR_Returned
    /\ Last(rr_queries) = "city"
    /\ rr_return[1].sample_size = 5
    /\ REq(rr_return[1].market_average, RInt(100))
    /\ REq(rr_return[1].recommended_min, <<9750, 100>>)

(***************************************************************************)
(* Properties of generate_forecast_analysis.                               *)
(***************************************************************************)
InsufficientHistory == {"Not enough historical data", "Unable to generate national forecast"}

SparseSpecialty == Contains(UpperSeq(Chars(f_parameters.specialty)), Chars("CRNA"))

FA_Done == f_pc = "done"

\* C3: when the primary request for a sparse (CRNA) specialty at state X fails
\* for insufficient history and at least two top-state retries succeed, the
\* call returns (does not raise) the multi-state fallback: is_multi_state_fallback,
\* requested_location = X, location = "multi-state", every state that succeeded.
C3_MultiStateFallbackReturned ==
    ( /\ FA_Done
      /\ SparseSpecialty
      /\ f_state # NoneVal
      /\ f_error = "Not enough historical data"
      /\ Len(f_forecasts) >= 2 )
    => /\ f_outcome.kind = "returned"
       /\ f_outcome.value.is_multi_state_fallback
       /\ f_outcome.value.requested_location = f_state
       /\ f_outcome.value.location = "multi-state"
       /\ f_outcome.value.multi_state_forecasts = f_forecasts

\* C4 as stated: after a state-level request fails for insufficient history
\* the next request is the same specialty with no state (national).
C4_NationalRetryFirst ==
    (FA_Done /\ f_error = "Not enough historical data")
    => /\ Len(f_requests) >= 2
       /\ f_requests[2].states = <<>>
       /\ f_requests[2].specialties = f_requests[1].specialties

\* C4 as amended: after a state-level request fails for insufficient history
\* no national (no-state) request is ever issued: for a specialty containing
\* "CRNA" every later request names one top state other than the failed one,
\* and for any other specialty the failure is returned after the one request.
C4_NoNationalRetryAfterStateFailure ==
    f_error = "Not enough historical data"
    => /\ f_requests[1].states = <<f_state>>
       /\ \A i \in 2..Len(f_requests) :
             /\ f_requests[i].states = <<TopStates(f_state)[i - 1]>>
             /\ f_requests[i].states # <<f_state>>
             /\ f_requests[i].specialties = f_requests[1].specialties
       /\ (FA_Done /\ ~SparseSpecialty)
            => /\ Len(f_requests) = 1
               /\ f_outcome = Returned(ErrorResult("Forecast analysis failed"))

C4_Witness ==
    /\ FA_Done
    /\ f_error = "Not enough historical data"
    /\ f_state = "NY"
    /\ Len(f_requests) = 5

\* C5 as stated: the top-state retry runs whenever a national request fails
\* for insufficient history, for any specialty.
C5_TopStateRetryAnySpecialty ==
    (FA_Done /\ f_error = "Unable to generate national forecast")
    => Len(f_requests) >= 2

\* C5 as amended: the top-state retry runs exactly when the specialty's
\* upper-cased name contains "CRNA" and the primary request, national or
\* state-level, failed for insufficient history, and it then asks for at least
\* three top states; for every other specialty the failure is returned without
\* a retry.
C5_TopStateRetryOnlyForCRNA ==
    /\ (f_pc = "top" \/ (f_error # "none" /\ Len(f_requests) >= 2))
         => (SparseSpecialty /\ f_error \in InsufficientHistory)
    /\ (FA_Done /\ f_error \in InsufficientHistory /\ SparseSpecialty)
         => Len(f_requests) >= 4
    /\ (FA_Done /\ f_error # "none" /\ ~SparseSpecialty)
         => /\ Len(f_requests) = 1
            /\ f_outcome = Returned(ErrorResult("Forecast analysis failed"))

C5_Witness ==
    /\ FA_Done
    /\ f_error = "Unable to generate national forecast"
    /\ f_parameters.specialty = "CRNA"
    /\ Len(f_requests) = 6

\* C7: a returned forecast labelled with location X was read from the entry of
\* X, unless the result is marked as a fallback (multi-state, or a dual
\* forecast carrying the national insights).
C7_GeographyDisclosed ==
    (f_outcome.kind = "returned" /\ f_outcome.value.kind = "forecast")
    => \/ f_outcome.value.forecast_insights[1].geography = f_outcome.value.location
       \/ f_outcome.value.is_multi_state_fallback
       \/ f_outcome.value.dual_forecast

(***************************************************************************)
(* Properties of the metric selection.                                     *)
(***************************************************************************)
\* the metric column the claim assigns to a rate_type token
SelectedColumn ==
    CASE parameters.rate_type = "hourly_pay" -> "hourlyPay"
      [] parameters.rate_type = "weekly_pay" -> "weeklyPay"
      [] OTHER                               -> "billRate"

NonNursingProfessions == {"Locum/Tenens", "Allied", "Therapy"}

\* C20: when the profession of the query is non-nursing (Locum/Tenens, Allied
\* or Therapy), no request sent to the forecasting model carries a specialty
\* label with the "RN - " prefix.
C20_NoRNPrefixForNonNursing ==
    f_parameters.profession \in NonNursingProfessions
    => \A i \in DOMAIN f_requests : ~StartsWith(f_requests[i].specialties, "RN - ")

(***************************************************************************)
(* SpecialtyNormalizer: the labels the pattern of a specialty matches      *)
(* (_normalize_specialty_for_query and the "newSpecialty" ~ $1 of the      *)
(* queries that use it).                                                   *)
(***************************************************************************)
PatternSpecialties ==
    {"ICU", "OR", "Certified Nurse Anesthetist (CRNA)", "CRNA", "crna"}

\* another token X of a label
OtherTokens == {<<"R", "N">>, <<"T", "e", "l", "e">>}

LabelForms ==
    {"alone", "after", "before", "hyphen", "glued_front", "glued_back", "glued_in", "absent"}

\* the label of form f built from the specialty's characters c and the token x
LabelOf(f, c, x) ==
    CASE f = "alone"       -> c
      [] f = "after"       -> x \o <<" ">> \o c
      [] f = "before"      -> c \o <<" ">> \o x
      [] f = "hyphen"      -> x \o <<" ", "-", " ">> \o c
      [] f = "glued_front" -> <<"N">> \o c
      [] f = "glued_back"  -> c \o <<"S">>
      [] f = "glued_in"    -> x \o <<" ", "-", " ", "N">> \o c
      [] f = "absent"      -> x

PatternCalls ==
    {[method |-> "_normalize_specialty_for_query", specialty |-> sp, form |-> f,
      label |-> LabelOf(f, Chars(sp), x)] :
        sp \in PatternSpecialties, f \in LabelForms, x \in OtherTokens}

\* the row filter "newSpecialty" ~ $1 with $1 the normalized specialty
MatchLabel ==
    /\ db_pc = "start"
    /\ db_call.method = "_normalize_specialty_for_query"
    /\ db_return' = <<RegexFind(_normalize_specialty_for_query(db_call.specialty),
                                db_call.label)>>
    /\ db_pc' = "done"
    /\ UNCHANGED <<rrVars, epVars, fVars, db_call, db_local>>

InitPattern ==
    /\ EndpointIdle
    /\ RateIdle
    /\ ForecastIdle
    /\ db_call \in PatternCalls
    /\ db_pc = "start"
    /\ db_local = <<>>
    /\ db_return = <<>>

NextPattern == MatchLabel

SpecPattern == InitPattern /\ [][NextPattern]_vars

\* C12: for every specialty S other than CRNA the pattern matches the labels
\* "S", "X S", "S X" and "X - S", and matches no label in which S occurs only
\* glued to other characters of a longer token (ICU does not match NICU).
C12_BoundaryMatch ==
    ( /\ db_pc = "done"
      /\ db_call.method = "_normalize_specialty_for_query"
      /\ UpperSeq(Chars(db_call.specialty)) # Chars("CRNA") )
    => /\ db_call.form \in {"alone", "after", "before", "hyphen"} => db_return[1]
       /\ db_call.form \in {"glued_front", "glued_back", "glued_in"} => ~db_return[1]

(***************************************************************************)
(* DatabaseService.get_clients_by_rate.                                    *)
(* A row of the table has here the columns the method reads: specialty,    *)
(* "clientName", city, state, the three metrics, "startDate" (startDay:    *)
(* days after CURRENT_DATE) and "newProfession".                           *)
(***************************************************************************)
ResultCap == 15
DefaultTolerance == 10

MkClientRow(name, c, st, sp, bill, day, prof) ==
    [clientName |-> name, city |-> c, state |-> st, specialty |-> sp,
     billRate |-> <<bill>>, weeklyPay |-> <<20 * bill>>, hourlyPay |-> <<50>>,
     startDay |-> day, newProfession |-> prof]

ClientRowKinds ==
    {MkClientRow(<<"A">>, "Buffalo", "NY", "ICU", 80, 5, "Nursing"),
     MkClientRow(<<"A">>, "Buffalo", "NY", "ICU", 100, 6, "Nursing"),
     MkClientRow(<<"A">>, "Buffalo", "NY", "ICU", 120, 7, "Nursing"),
     MkClientRow(<<"B">>, "Buffalo", "NY", "ICU", 100, 5, "Nursing"),
     MkClientRow(<<"B">>, "Buffalo", "NY", "ICU", 200, 5, "Nursing"),
     MkClientRow(<<>>,    "Buffalo", "NY", "ICU", 100, 5, "Nursing"),
     MkClientRow(<<"C">>, "Austin",  "TX", "ICU", 110, 5, "Nursing"),
     MkClientRow(<<"A">>, "Buffalo", "NY", "NICU", 100, 5, "Nursing"),
     MkClientRow(<<"B">>, "Buffalo", "NY", "ICU", 100, -5, "Nursing"),
     MkClientRow(<<"D">>, "Buffalo", "NY", "ICU", 100, 5, "Allied")}

ClientBatches == {[row |-> r, n |-> m] : r \in ClientRowKinds, m \in {1, 2}}

\* more facilities than the result cap, each with one row and its own rate
Facilities ==
    <<"F01", "F02", "F03", "F04", "F05", "F06", "F07", "F08", "F09", "F10",
      "F11", "F12", "F13", "F14", "F15", "F16", "F17">>

WideStore(k) ==
    {[row |-> MkClientRow(<<Facilities[i]>>, "Buffalo", "NY", "ICU", 90 + 2 * i, 5, "Nursing"),
      n |-> 1] : i \in 1..k}

ClientStores ==
    SubsetsUpTo(ClientBatches, MaxBatches) \cup {WideStore(16), WideStore(17)}

\* specialty ~ ('(^|\s|-)' || $1 || '($|\s)'): the specialty, unescaped, with
\* a start/space/hyphen before it and an end/space after it; NULL (no match)
\* when $1 is NULL
InlinePatternMatch(specialty, label) ==
    LET l == Chars(label)
        a == PatternAtoms(Chars(specialty))
    IN  /\ specialty # NoneVal
        /\ \E i \in 1..(Len(l) - Len(a) + 1) :
              /\ SubSeq(l, i, i + Len(a) - 1) = a
              /\ (i = 1 \/ l[i - 1] \in {" ", "-"})
              /\ (i + Len(a) - 1 = Len(l) \/ l[i + Len(a)] = " ")

\* the conditions every query of the method has
ClientWhere(b, col) ==
    /\ ~IsNull(b.row[col])
    /\ Between(b.row.billRate, BillRateMin, BillRateMax)
    /\ Between(b.row.weeklyPay, WeeklyPayMin, WeeklyPayMax)
    /\ Between(b.row.hourlyPay, HourlyPayMin, HourlyPayMax)
    /\ b.row.startDay >= 0

\* the specialty and state conditions of the branch taken
ClientScope(b, specialty, location) ==
    /\ Truthy(specialty) => InlinePatternMatch(specialty, b.row.specialty)
    /\ Truthy(location) => Lower(b.row.state) = Lower(location)

\* GROUP BY "clientName", city, state, specialty
FacilityGroups(rows) ==
    {{b \in rows : /\ b.row.clientName = k.row.clientName
                   /\ b.row.city = k.row.city
                   /\ b.row.state = k.row.state
                   /\ b.row.specialty = k.row.specialty} : k \in rows}

MaxStartDay(g) == CHOOSE d \in {b.row.startDay : b \in g} : \A b \in g : b.row.startDay <= d

\* the SELECT list over one group
FacilityRow(g, col) ==
    LET k == (CHOOSE b \in g : TRUE).row
    IN  [client_name |-> k.clientName, city |-> k.city, state |-> k.state,
         specialty |-> k.specialty, avg_rate |-> Avg(g, col),
         assignment_count |-> Count(g), most_recent |-> MaxStartDay(g)]

\* Precedes with the two directions of the average exchanged
Precedes_Flipped(order, r, q) ==
    CASE order = "DESC" -> RLt(r.avg_rate, q.avg_rate)
      [] order = "ASC"  -> RLt(q.avg_rate, r.avg_rate)
      [] order = "COUNT_DESC_AVG_DESC" ->
            \/ r.assignment_count > q.assignment_count
            \/ /\ r.assignment_count = q.assignment_count
               /\ RLt(q.avg_rate, r.avg_rate)

\* ORDER BY: r comes strictly before q
Precedes(order, r, q) ==
    CASE order = "DESC" -> RLt(q.avg_rate, r.avg_rate)
      [] order = "ASC"  -> RLt(r.avg_rate, q.avg_rate)
      [] order = "COUNT_DESC_AVG_DESC" ->
            \/ r.assignment_count > q.assignment_count
            \/ /\ r.assignment_count = q.assignment_count
               /\ RLt(q.avg_rate, r.avg_rate)

\* the orders in which the data store may give the rows: rows the ORDER BY
\* does not tell apart come in any order
RECURSIVE OrderedBy(_, _)
OrderedBy(rows, order) ==
    IF rows = {} THEN {<<>>}
    ELSE UNION {{<<m>> \o q : q \in OrderedBy(rows \ {m}, order)} :
                   m \in {x \in rows : \A y \in rows : ~Precedes(order, y, x)}}

\* LIMIT n
Limit(q, n) == SubSeq(q, 1, IF Len(q) < n THEN Len(q) ELSE n)

\* lines 496-581: the rows of the "highest" / "lowest" query
RankedRows(st, specialty, location, col) ==
    {b \in st : /\ ClientScope(b, specialty, location)
                /\ ClientWhere(b, col)
                /\ ~IsNull(b.row.clientName)}

RankedQuery(st, specialty, location, col, order) ==
    {Limit(q, ResultCap) :
        q \in OrderedBy({FacilityRow(g, col) :
                           g \in FacilityGroups(RankedRows(st, specialty, location, col))},
                        order)}

\* lines 585-605: the market average taken as target; <<>> is NULL
MarketAverage(st, specialty, location, col) ==
    LET rows == {b \in st : /\ InlinePatternMatch(specialty, b.row.specialty)
                            /\ ClientWhere(b, col)
                            /\ Truthy(location) => Lower(b.row.state) = Lower(location)}
    IN  IF rows = {} THEN <<>> ELSE <<Avg(rows, col)>>

\* SimilarBand with the two ends exchanged
SimilarBand_Swapped(target_rate, rate_tolerance) ==
    [min |-> RScale(target_rate, 1000 + 10 * rate_tolerance),
     max |-> RScale(target_rate, 1000 - 10 * rate_tolerance)]

\* lines 608-610: min_rate and max_rate
SimilarBand(target_rate, rate_tolerance) ==
    [min |-> RScale(target_rate, 1000 - 10 * rate_tolerance),
     max |-> RScale(target_rate, 1000 + 10 * rate_tolerance)]

\* {rate_column} BETWEEN min_rate AND max_rate, a condition on the row
InBand(b, col, band) ==
    /\ ~IsNull(b.row[col])
    /\ RLeq(band.min, RInt(b.row[col][1]))
    /\ RLeq(RInt(b.row[col][1]), band.max)

\* lines 612-663: the rows of the "similar" query
SimilarRows(st, specialty, location, col, band) ==
    {b \in st : /\ ClientScope(b, specialty, location)
                /\ InBand(b, col, band)
                /\ ClientWhere(b, col)
                /\ ~IsNull(b.row.clientName)}

SimilarQuery(st, specialty, location, col, band) ==
    {Limit(q, ResultCap) :
        q \in OrderedBy({FacilityRow(g, col) :
                           g \in FacilityGroups(SimilarRows(st, specialty, location, col, band))},
                        "COUNT_DESC_AVG_DESC")}

\* getattr(parameters, name, default): the attribute, and the default only
\* when the object has no attribute of that name
getattr(p, name, default) == IF name \in DOMAIN p THEN p[name] ELSE default

\* line 480
RateFilter(p) == getattr(p, "rate_filter", "highest")

\* lines 665-694: the response built from the rows, None for no row
ClientResponse(results, p, target_rate, band) ==
    IF results = <<>> THEN <<>>
    ELSE <<[clients |-> results, total_clients |-> Len(results),
            specialty |-> p.specialty, location |-> p.location,
            rate_filter |-> RateFilter(p),
            rate_column_queried |-> RateColumn(p.rate_type),
            target_rate |-> IF RateFilter(p) = "similar" THEN target_rate ELSE <<>>,
            rate_range |-> IF RateFilter(p) = "similar" /\ target_rate # <<>>
                           THEN <<band>> ELSE <<>>]>>

\* the arguments of the calls
ClientParameters ==
    [specialty : {"ICU", NoneVal}, location : {"NY", "ny", NoneVal},
     rate_type : {NoneVal, "weekly_pay"}, profession : {NoneVal, "Allied"},
     rate_filter : {"highest", "lowest", "similar"}]

Tolerances == {0, DefaultTolerance, 20}

ClientCalls ==
    [method : {"get_clients_by_rate"}, target_rate : {<<>>, <<RInt(100)>>},
     rate_tolerance : Tolerances]

\* the branch of lines 496-581 or 612-663 has a query for these arguments
HasRankedQuery(p) == Truthy(p.specialty) \/ Truthy(p.location)
HasSimilarQuery(p) == Truthy(p.specialty)

CL_Return(value) ==
    /\ db_return' = value
    /\ db_pc' = "done"
    /\ UNCHANGED <<rrVars, epVars, fVars, db_call, db_local>>

\* lines 472-605: the pool check, the "highest" / "lowest" branch to its
\* return, and of the other branch the choice of the target rate
CL_Begin ==
    /\ db_pc = "start"
    /\ db_call.method = "get_clients_by_rate"
    /\ LET p == parameters
           col == RateColumn(p.rate_type)
       IN  IF ~pool THEN CL_Return(<<>>)
           ELSE IF RateFilter(p) \in {"highest", "lowest"}
           THEN IF HasRankedQuery(p)
                THEN \E results \in RankedQuery(store, p.specialty, p.location, col,
                                       IF RateFilter(p) = "highest" THEN "DESC" ELSE "ASC") :
                        CL_Return(ClientResponse(results, p, <<>>, <<>>))
                ELSE CL_Return(<<>>)
           ELSE LET target == IF db_call.target_rate = <<>>
                              THEN MarketAverage(store, p.specialty, p.location, col)
                              ELSE db_call.target_rate
                IN  IF target = <<>> \/ RIsZero(target[1])
                    THEN CL_Return(<<>>)
                    ELSE /\ db_local' = <<[target_rate |-> target[1]]>>
                         /\ db_pc' = "search"
                         /\ UNCHANGED <<rrVars, epVars, fVars, db_call, db_return>>

\* lines 607-698: the band, the "similar" query and the response
CL_Similar ==
    /\ db_pc = "search"
    /\ LET p == parameters
           col == RateColumn(p.rate_type)
           band == SimilarBand(db_local[1].target_rate, db_call.rate_tolerance)
       IN  IF HasSimilarQuery(p)
           THEN \E results \in SimilarQuery(store, p.specialty, p.location, col, band) :
                   CL_Return(ClientResponse(results, p, <<db_local[1].target_rate>>, band))
           ELSE CL_Return(<<>>)

\* lines 699-701: a query raised; the method returns None
CL_Except ==
    /\ db_pc \in {"start", "search"}
    /\ db_call.method = "get_clients_by_rate"
    /\ pool
    /\ db_pc' = "failed"
    /\ db_return' = <<>>
    /\ UNCHANGED <<rrVars, epVars, fVars, db_call, db_local>>

InitClients ==
    /\ EndpointIdle
    /\ ForecastIdle
    /\ store \in ClientStores
    /\ pool \in BOOLEAN
    /\ parameters \in ClientParameters
    /\ rr_pc = "idle"
    /\ rr_result = <<>>
    /\ rr_return = <<>>
    /\ rr_queries = <<>>
    /\ rr_fault = "none"
    /\ chat = [kind |-> "pending"]
    /\ db_call \in ClientCalls
    /\ (parameters.rate_filter # "similar") =>
          (db_call.target_rate = <<>> /\ db_call.rate_tolerance = DefaultTolerance)
    /\ db_pc = "start"
    /\ db_local = <<>>
    /\ db_return = <<>>

NextClients == CL_Begin \/ CL_Similar \/ CL_Except

SpecClients == InitClients /\ [][NextClients]_vars

(***************************************************************************)
(* Claims about get_clients_by_rate.                                       *)
(***************************************************************************)
CL_Returned ==
    /\ db_call.method = "get_clients_by_rate"
    /\ db_pc = "done"
    /\ db_return # <<>>

ReturnedClients == db_return[1].clients

\* the rows of the store that belong to a returned facility
RowsOfClient(c) ==
    {b \in store : /\ b.row.clientName = c.client_name
                   /\ b.row.city = c.city
                   /\ b.row.state = c.state
                   /\ b.row.specialty = c.specialty}

\* C13: when a profession is supplied, every query of every resolver is
\* restricted to rows of exactly that profession.  For the client ranking:
\* the assignments counted for a returned facility are rows of the supplied
\* profession.
C13_ProfessionRestrictsClients ==
    (CL_Returned /\ Truthy(parameters.profession)) =>
        \A i \in 1..Len(ReturnedClients) :
            ReturnedClients[i].assignment_count <=
                Count({b \in RowsOfClient(ReturnedClients[i]) :
                          b.row.newProfession = parameters.profession})

CL_SimilarDone ==
    /\ db_call.method = "get_clients_by_rate"
    /\ db_pc = "done"
    /\ pool
    /\ parameters.rate_filter = "similar"
    /\ Truthy(parameters.specialty)

\* the target of the call: the one passed, else the market average
TargetOfCall ==
    IF db_call.target_rate # <<>> THEN db_call.target_rate
    ELSE MarketAverage(store, parameters.specialty, parameters.location,
                       RateColumn(parameters.rate_type))

FacilityKey(c) ==
    [client_name |-> c.client_name, city |-> c.city, state |-> c.state,
     specialty |-> c.specialty]

ReturnedKeys ==
    IF db_return = <<>> THEN {}
    ELSE {FacilityKey(ReturnedClients[i]) : i \in 1..Len(ReturnedClients)}

\* the facilities whose average over all their rows that match the
\* specialty, location and date filters lies in the band around the target
FacilitiesWithAverageInBand(tolerance) ==
    LET col == RateColumn(parameters.rate_type)
        band == SimilarBand(TargetOfCall[1], tolerance)
        all == {FacilityRow(g, col) :
                  g \in FacilityGroups(RankedRows(store, parameters.specialty,
                                                   parameters.location, col))}
    IN  {FacilityKey(c) : c \in {r \in all : /\ RLeq(band.min, r.avg_rate)
                                             /\ RLeq(r.avg_rate, band.max)}}

\* C14: in "similar" mode a facility is returned if and only if (up to the
\* cap of 15) the average of the active metric over all of its rows that
\* match the specialty, location and date filters lies within
\* target * (1 -/+ tolerance / 100), the target being the market average
\* when none is passed.
C14_SimilarByGroupAverage ==
    (/\ CL_SimilarDone
     /\ TargetOfCall # <<>>
     /\ Cardinality(FacilitiesWithAverageInBand(db_call.rate_tolerance)) <= ResultCap)
        => ReturnedKeys = FacilitiesWithAverageInBand(db_call.rate_tolerance)

\* the number of facilities a call returns: None is no facility
ReturnedCount == IF db_return = <<>> THEN 0 ELSE db_return[1].total_clients

\* the numbers of facilities the "similar" query can give back for the
\* call's data set, specialty, location and target under tolerance t
SimilarCounts(t) ==
    IF TargetOfCall = <<>> THEN {0}
    ELSE {Len(q) : q \in SimilarQuery(store, parameters.specialty, parameters.location,
                                      RateColumn(parameters.rate_type),
                                      SimilarBand(TargetOfCall[1], t))}

\* C15: for a fixed data set, specialty, location and target, the number of
\* facilities returned in "similar" mode is non-decreasing in
\* rate_tolerance: the call returns at least as many facilities as with any
\* smaller tolerance and at most as many as with any larger one.
C15_CountMonotoneInTolerance ==
    CL_SimilarDone =>
        \A t \in Tolerances :
            /\ t <= db_call.rate_tolerance =>
                  \A n \in SimilarCounts(t) : n <= ReturnedCount
            /\ t >= db_call.rate_tolerance =>
                  \A n \in SimilarCounts(t) : ReturnedCount <= n

\* a call that returns more facilities than a smaller tolerance gives, and
\* the smaller tolerance gives some
C15_Witness ==
    /\ CL_SimilarDone
    /\ \E t \in Tolerances :
          /\ t < db_call.rate_tolerance
          /\ \E n \in SimilarCounts(t) : 0 < n /\ n < ReturnedCount

CL_RankedDone ==
    /\ db_call.method = "get_clients_by_rate"
    /\ db_pc = "done"
    /\ pool
    /\ parameters.rate_filter \in {"highest", "lowest"}
    /\ HasRankedQuery(parameters)

\* the facility groups of the request, each with its average
RankedFacilities ==
    LET col == RateColumn(parameters.rate_type)
    IN  {FacilityRow(g, col) :
            g \in FacilityGroups(RankedRows(store, parameters.specialty,
                                            parameters.location, col))}

ReturnedList == IF db_return = <<>> THEN <<>> ELSE ReturnedClients

\* r is at least as good as q for the filter: greater for "highest", less
\* for "lowest"
NotWorse(r, q) ==
    IF parameters.rate_filter = "highest" THEN RLeq(q.avg_rate, r.avg_rate)
    ELSE RLeq(r.avg_rate, q.avg_rate)

\* C16: for "highest" ("lowest") the method returns the up-to-15 facility
\* groups with the greatest (least) average of the active metric, in
\* descending (ascending) order of that average, none with a null name.
C16_RankedTopFifteen ==
    CL_RankedDone =>
        LET l == ReturnedList
            returned == {l[i] : i \in 1..Len(l)}
        IN  /\ returned \subseteq RankedFacilities
            /\ Cardinality(returned) = Len(l)
            /\ Len(l) = IF Cardinality(RankedFacilities) < ResultCap
                        THEN Cardinality(RankedFacilities) ELSE ResultCap
            /\ \A i, j \in 1..Len(l) : i < j => NotWorse(l[i], l[j])
            /\ \A r \in returned : \A q \in RankedFacilities \ returned : NotWorse(r, q)
            /\ \A r \in returned : r.client_name # <<>>

\* a ranking cut at the cap: more groups than 15, the first strictly above
\* the last, and a row without facility name in no group
C16_Witness ==
    /\ CL_RankedDone
    /\ parameters.rate_filter = "highest"
    /\ Cardinality(RankedFacilities) > ResultCap
    /\ Len(ReturnedList) = ResultCap
    /\ RLt(ReturnedList[ResultCap].avg_rate, ReturnedList[1].avg_rate)

\* a ranking over a table that holds a row without facility name
C16_NullNameWitness ==
    /\ CL_RankedDone
    /\ parameters.rate_filter = "lowest"
    /\ \E b \in store : b.row.clientName = <<>>
    /\ Len(ReturnedList) > 0

(***************************************************************************)
(* DatabaseService.get_comparable_jobs, over rows of the same columns.     *)
(***************************************************************************)
JobCap == 20

\* two batches of twelve equal rows each, on different start dates
ManyJobsStore ==
    {[row |-> MkClientRow(<<"A">>, "Buffalo", "NY", "ICU", 100, 6, "Nursing"), n |-> 12],
     [row |-> MkClientRow(<<"B">>, "Buffalo", "NY", "ICU", 105, 5, "Nursing"), n |-> 12]}

JobStores == SubsetsUpTo(ClientBatches, MaxBatches) \cup {ManyJobsStore}

\* ComparableBand with a fifth of the target on either side
ComparableBand_Fifth(target_rate, rate_range) ==
    IF rate_range # <<>> THEN rate_range
    ELSE IF target_rate # <<>> /\ ~RIsZero(target_rate[1])
    THEN <<[min |-> RScale(target_rate[1], 800), max |-> RScale(target_rate[1], 1200)]>>
    ELSE <<>>

\* lines 735-744: min_rate and max_rate, <<>> when there is no rate context
ComparableBand(target_rate, rate_range) ==
    IF rate_range # <<>> THEN rate_range
    ELSE IF target_rate # <<>> /\ ~RIsZero(target_rate[1])
    THEN <<[min |-> RScale(target_rate[1], 900), max |-> RScale(target_rate[1], 1100)]>>
    ELSE <<>>

\* lines 747 and 775: which query the location gives, "none" for no query
ComparableScope(p) ==
    IF Truthy(p.city) /\ Truthy(p.state) THEN "city"
    ELSE IF Truthy(p.state) \/ Truthy(p.location) THEN "state"
    ELSE "none"

\* the WHERE clause of lines 761-770 and 790-798
ComparableRows(st, p, col, band) ==
    LET state_code == IF Truthy(p.state) THEN p.state ELSE p.location
    IN  {b \in st :
            /\ InlinePatternMatch(p.specialty, b.row.specialty)
            /\ IF ComparableScope(p) = "city"
               THEN /\ Lower(b.row.city) = Lower(p.city)
                    /\ Lower(b.row.state) = Lower(p.state)
               ELSE Lower(b.row.state) = Lower(state_code)
            /\ InBand(b, col, band)
            /\ ClientWhere(b, col)
            /\ ~IsNull(b.row.clientName)}

\* the SELECT list of one row
JobRow(r, col) ==
    [specialty |-> r.specialty, client_name |-> r.clientName, city |-> r.city,
     state |-> r.state, rate |-> r[col][1], start_date |-> r.startDay,
     weekly_pay |-> r.weeklyPay, hourly_pay |-> r.hourlyPay, bill_rate |-> r.billRate]

\* the same rows with one batch for each distinct row
Merged(bs) ==
    {[row |-> r, n |-> Count({b \in bs : b.row = r})] : r \in {b.row : b \in bs}}

\* batch m with one row taken out, in a set with one batch for each row
TakeOne(bs, m) ==
    IF m.n = 1 THEN bs \ {m}
    ELSE (bs \ {m}) \cup {[row |-> m.row, n |-> m.n - 1]}

\* ORDER BY "startDate" ASC over the rows of the batches: rows of one date
\* come in any order
RECURSIVE OrderedByStartDate(_, _)
OrderedByStartDate(bs, col) ==
    IF bs = {} THEN {<<>>}
    ELSE UNION {{<<JobRow(m.row, col)>> \o q : q \in OrderedByStartDate(TakeOne(bs, m), col)} :
                   m \in {x \in bs : \A y \in bs : x.row.startDay <= y.row.startDay}}

ComparableQuery(st, p, col, band) ==
    {Limit(q, JobCap) :
        q \in OrderedByStartDate(Merged(ComparableRows(st, p, col, band)), col)}

\* lines 806-831: the response, None for no row
ComparableResponse(results, p, band) ==
    IF results = <<>> THEN <<>>
    ELSE <<[jobs |-> results, total_jobs |-> Len(results),
            specialty |-> p.specialty, city |-> p.city,
            state |-> IF Truthy(p.state) THEN p.state ELSE p.location,
            rate_range |-> band,
            rate_type_label |-> RateLabel(p.rate_type)]>>

JobParameters ==
    [specialty : {"ICU", NoneVal}, city : {"Buffalo", NoneVal}, state : {"NY", NoneVal},
     location : {"ny", NoneVal}, rate_type : {NoneVal, "weekly_pay"},
     profession : {NoneVal}]

JobCalls ==
    [method : {"get_comparable_jobs"},
     target_rate : {<<>>, <<RInt(0)>>, <<RInt(100)>>},
     rate_range : {<<>>, <<[min |-> RInt(100), max |-> RInt(200)]>>}]

\* lines 712-833 without the except clause
CJ_Call ==
    /\ db_pc = "start"
    /\ db_call.method = "get_comparable_jobs"
    /\ LET p == parameters
           col == RateColumn(p.rate_type)
           band == ComparableBand(db_call.target_rate, db_call.rate_range)
       IN  \E value \in
              IF ~pool \/ band = <<>> \/ ComparableScope(p) = "none" THEN {<<>>}
              ELSE {ComparableResponse(results, p, band[1]) :
                       results \in ComparableQuery(store, p, col, band[1])} :
              db_return' = value
    /\ db_pc' = "done"
    /\ UNCHANGED <<rrVars, epVars, fVars, db_call, db_local>>

\* lines 835-837: the query raised; the method returns None
CJ_Except ==
    /\ db_pc = "start"
    /\ db_call.method = "get_comparable_jobs"
    /\ pool
    /\ ComparableBand(db_call.target_rate, db_call.rate_range) # <<>>
    /\ ComparableScope(parameters) # "none"
    /\ db_pc' = "failed"
    /\ db_return' = <<>>
    /\ UNCHANGED <<rrVars, epVars, fVars, db_call, db_local>>

InitComparable ==
    /\ EndpointIdle
    /\ ForecastIdle
    /\ store \in JobStores
    /\ pool \in BOOLEAN
    /\ parameters \in JobParameters
    /\ rr_pc = "idle"
    /\ rr_result = <<>>
    /\ rr_return = <<>>
    /\ rr_queries = <<>>
    /\ rr_fault = "none"
    /\ chat = [kind |-> "pending"]
    /\ db_call \in JobCalls
    /\ db_pc = "start"
    /\ db_local = <<>>
    /\ db_return = <<>>

NextComparable == CJ_Call \/ CJ_Except

SpecComparable == InitComparable /\ [][NextComparable]_vars

CJ_Done ==
    /\ db_call.method = "get_comparable_jobs"
    /\ db_pc = "done"

ReturnedJobs == IF db_return = <<>> THEN <<>> ELSE db_return[1].jobs

\* how many times job j is in the returned list
Occurrences(j) == Cardinality({i \in 1..Len(ReturnedJobs) : ReturnedJobs[i] = j})

\* the rows of the table a returned job can be: same columns, the active
\* metric as rate
RowsOfJob(j) ==
    {b \in store : JobRow(b.row, RateColumn(parameters.rate_type)) = j}

\* C17: get_comparable_jobs returns only single rows of the table, never
\* aggregates, whose active metric lies in the band (the explicit (min, max)
\* when given, else target * 0.9 .. target * 1.1) and whose start date is
\* today or later, ordered by start date ascending, at most 20; with
\* neither target nor band, or with no city, state or location, it returns
\* no result.
C17_ComparableJobs ==
    CJ_Done =>
        LET l == ReturnedJobs
            lo == IF db_call.rate_range # <<>> THEN db_call.rate_range[1].min
                  ELSE RScale(db_call.target_rate[1], 900)
            hi == IF db_call.rate_range # <<>> THEN db_call.rate_range[1].max
                  ELSE RScale(db_call.target_rate[1], 1100)
        IN  /\ (db_call.rate_range = <<>> /\ db_call.target_rate = <<>>) => l = <<>>
            /\ (/\ ~Truthy(parameters.city)
                /\ ~Truthy(parameters.state)
                /\ ~Truthy(parameters.location)) => l = <<>>
            /\ Len(l) <= JobCap
            /\ \A i \in 1..Len(l) :
                  /\ RowsOfJob(l[i]) # {}
                  /\ Occurrences(l[i]) <= Count(RowsOfJob(l[i]))
                  /\ RLeq(lo, RInt(l[i].rate))
                  /\ RLeq(RInt(l[i].rate), hi)
                  /\ l[i].start_date >= 0
            /\ \A i, j \in 1..Len(l) : i < j => l[i].start_date <= l[j].start_date

\* a call with a target and no band that returns the first 20 of more rows,
\* of two start dates
C17_Witness ==
    /\ CJ_Done
    /\ db_call.rate_range = <<>>
    /\ Len(ReturnedJobs) = JobCap
    /\ Count(store) > JobCap
    /\ ReturnedJobs[1].start_date < ReturnedJobs[JobCap].start_date

\* a call with a target that leaves out a row below the band or a row of a
\* past start date
C17_BandWitness ==
    /\ CJ_Done
    /\ db_call.rate_range = <<>>
    /\ Len(ReturnedJobs) > 0
    /\ \E b \in store : b.row.billRate = <<80>> \/ b.row.startDay < 0

(***************************************************************************)
(* DatabaseService.get_rate_trends_by_state.  A row has "newSpecialty",    *)
(* state, the three metrics, "newProfession" and ageDays: the days from    *)
(* "startDate" to NOW().                                                   *)
(***************************************************************************)
RecentWindowDays == 30
OlderWindowDays == 90
MinWindowSamples == 2
NoiseFloorPercent == 1
DefaultTrendLimit == 5

MkTrendRow(st, bill, age, prof) ==
    [newSpecialty |-> "RN - ICU", city |-> "", state |-> st,
     billRate |-> <<bill>>, weeklyPay |-> <<20 * bill>>, hourlyPay |-> <<50>>,
     ageDays |-> age, newProfession |-> prof]

\* the older window of a state: two rows of 200, or a single one
OlderBases ==
    {{[row |-> MkTrendRow("NY", 200, 60, "Nursing"), n |-> 2],
      [row |-> MkTrendRow("TX", 200, 31, "Nursing"), n |-> 2]},
     {[row |-> MkTrendRow("NY", 200, 90, "Nursing"), n |-> 2],
      [row |-> MkTrendRow("TX", 200, 60, "Nursing"), n |-> 1]},
     {[row |-> MkTrendRow("NY", 200, 60, "Nursing"), n |-> 2],
      [row |-> MkTrendRow("TX", 200, 91, "Nursing"), n |-> 2]}}

RecentRowKinds ==
    {MkTrendRow("NY", v, 10, "Nursing") : v \in {180, 198, 199, 200, 201, 202, 220}}
    \cup {MkTrendRow("TX", v, 30, "Nursing") : v \in {180, 199, 202, 220}}
    \cup {MkTrendRow("TX", 240, 10, "Allied")}
    \* an assignment that starts in ten days
    \cup {MkTrendRow("NY", 220, 0 - 10, "Nursing")}

RecentBatches == {[row |-> r, n |-> m] : r \in RecentRowKinds, m \in {1, 2}}

TrendStores ==
    {base \cup recent : base \in OlderBases,
                        recent \in SubsetsUpTo(RecentBatches, MaxBatches)}

\* the conditions both windows have (lines 1140-1146, 1154-1162)
TrendWhere(b, p) ==
    LET col == RateColumn(p.rate_type)
    IN  /\ RegexMatch(_normalize_specialty_for_query(p.specialty), b.row.newSpecialty)
        /\ ~IsNull(b.row[col])
        /\ Between(b.row.billRate, BillRateMin, BillRateMax)
        /\ Between(b.row.weeklyPay, WeeklyPayMin, WeeklyPayMax)
        /\ Between(b.row.hourlyPay, HourlyPayMin, HourlyPayMax)
        /\ _get_profession_filter(p.profession, b.row)

\* "startDate" >= NOW() - INTERVAL '30 days': no upper end, a start date
\* after NOW() is in the window
InRecentWindow(b) == b.row.ageDays <= RecentWindowDays

\* "startDate" >= NOW() - INTERVAL '90 days' AND "startDate" < NOW() - INTERVAL '30 days'
InOlderWindow(b) ==
    /\ b.row.ageDays <= OlderWindowDays
    /\ b.row.ageDays > RecentWindowDays

\* GROUP BY state HAVING COUNT(*) >= 2, with the SELECT list of the window
StateAverages(rows, col) ==
    LET groups == {{b \in rows : b.row.state = k.row.state} : k \in rows}
    IN  {[state |-> (CHOOSE b \in g : TRUE).row.state,
          avg_rate |-> Avg(g, col), sample_size |-> Count(g)] :
            g \in {h \in groups : Count(h) >= MinWindowSamples}}

\* ((r.avg_rate - o.avg_rate) / o.avg_rate * 100)
PercentChange(recent, older) == RTimes(RDiv(RSub(recent, older), older), 100)

RAbs(a) == <<Abs(a[1]), a[2]>>

\* KeepsChange without the noise floor
KeepsChange_SignOnly(trend_direction, percent_change) ==
    IF trend_direction = "rising" THEN RLt(RInt(0), percent_change)
    ELSE RLt(percent_change, RInt(0))

\* lines 1131, 1176-1177: the direction filter and the noise floor
KeepsChange(trend_direction, percent_change) ==
    /\ IF trend_direction = "rising" THEN RLt(RInt(0), percent_change)
       ELSE RLt(percent_change, RInt(0))
    /\ RLeq(RInt(NoiseFloorPercent), RAbs(percent_change))

\* the join of the two windows with its WHERE clause
TrendRows(st, p, trend_direction) ==
    LET col == RateColumn(p.rate_type)
        recent == StateAverages({b \in st : TrendWhere(b, p) /\ InRecentWindow(b)}, col)
        older == StateAverages({b \in st : TrendWhere(b, p) /\ InOlderWindow(b)}, col)
        pairs == {ro \in recent \X older : ro[1].state = ro[2].state}
        joined == {[state |-> ro[1].state, recent_rate |-> ro[1].avg_rate,
                    older_rate |-> ro[2].avg_rate,
                    percent_change |-> PercentChange(ro[1].avg_rate, ro[2].avg_rate),
                    recent_sample_size |-> ro[1].sample_size,
                    older_sample_size |-> ro[2].sample_size] : ro \in pairs}
    IN  {t \in joined : KeepsChange(trend_direction, t.percent_change)}

\* ORDER BY percent_change DESC for 'rising', ASC otherwise; equal changes in
\* any order
RECURSIVE OrderedByChange(_, _)
OrderedByChange(rows, trend_direction) ==
    IF rows = {} THEN {<<>>}
    ELSE UNION {{<<m>> \o q : q \in OrderedByChange(rows \ {m}, trend_direction)} :
                   m \in {x \in rows : \A y \in rows :
                            IF trend_direction = "rising"
                            THEN RLeq(y.percent_change, x.percent_change)
                            ELSE RLeq(x.percent_change, y.percent_change)}}

TrendQuery(st, p, trend_direction, limit) ==
    {Limit(q, limit) : q \in OrderedByChange(TrendRows(st, p, trend_direction), trend_direction)}

\* lines 1184-1203: the response, None for no row
TrendResponse(results, p, trend_direction) ==
    IF results = <<>> THEN <<>>
    ELSE <<[trends |-> results, specialty |-> p.specialty,
            rate_type_label |-> RateLabel(p.rate_type),
            trend_direction |-> trend_direction,
            total_states |-> Len(results)]>>

TrendParameters ==
    [specialty : {"ICU", NoneVal}, rate_type : {NoneVal, "weekly_pay"},
     profession : {NoneVal, "Nursing"}]

TrendCalls ==
    [method : {"get_rate_trends_by_state"},
     trend_direction : {"rising", "falling", "up"},
     limit : {1, DefaultTrendLimit}]

\* lines 1099-1205 without the except clause
TR_Call ==
    /\ db_pc = "start"
    /\ db_call.method = "get_rate_trends_by_state"
    /\ \E value \in
          IF ~pool \/ ~Truthy(parameters.specialty) THEN {<<>>}
          ELSE {TrendResponse(results, parameters, db_call.trend_direction) :
                   results \in TrendQuery(store, parameters, db_call.trend_direction,
                                          db_call.limit)} :
          db_return' = value
    /\ db_pc' = "done"
    /\ UNCHANGED <<rrVars, epVars, fVars, db_call, db_local>>

\* lines 1206-1208: the query raised; the method returns None
TR_Except ==
    /\ db_pc = "start"
    /\ db_call.method = "get_rate_trends_by_state"
    /\ pool
    /\ Truthy(parameters.specialty)
    /\ db_pc' = "failed"
    /\ db_return' = <<>>
    /\ UNCHANGED <<rrVars, epVars, fVars, db_call, db_local>>

InitTrends ==
    /\ EndpointIdle
    /\ ForecastIdle
    /\ store \in TrendStores
    /\ pool \in BOOLEAN
    /\ parameters \in TrendParameters
    /\ rr_pc = "idle"
    /\ rr_result = <<>>
    /\ rr_return = <<>>
    /\ rr_queries = <<>>
    /\ rr_fault = "none"
    /\ chat = [kind |-> "pending"]
    /\ db_call \in TrendCalls
    /\ db_pc = "start"
    /\ db_local = <<>>
    /\ db_return = <<>>

NextTrends == TR_Call \/ TR_Except

SpecTrends == InitTrends /\ [][NextTrends]_vars

TR_Done ==
    /\ db_call.method = "get_rate_trends_by_state"
    /\ db_pc = "done"

ReturnedTrends == IF db_return = <<>> THEN <<>> ELSE db_return[1].trends

\* the rows of a state the call's filters let through, by window
WindowRows(st, recent) ==
    {b \in store : /\ b.row.state = st
                   /\ TrendWhere(b, parameters)
                   /\ IF recent THEN InRecentWindow(b) ELSE InOlderWindow(b)}

\* the percent change of a state that has rows in both windows
ChangeOfState(st) ==
    LET col == RateColumn(parameters.rate_type)
    IN  PercentChange(Avg(WindowRows(st, TRUE), col), Avg(WindowRows(st, FALSE), col))

\* C19: every state returned by get_rate_trends_by_state has a percent
\* change, that of its recent average against its older average, whose sign
\* matches the requested direction (positive for 'rising', negative for
\* 'falling') and whose absolute value is at least 1.0; a state with a
\* change below 1.0 in absolute value never appears, whatever the direction.
C19_TrendSignAndNoiseFloor ==
    TR_Done =>
        \A i \in 1..Len(ReturnedTrends) :
            LET t == ReturnedTrends[i]
            IN  /\ WindowRows(t.state, TRUE) # {}
                /\ WindowRows(t.state, FALSE) # {}
                /\ REq(t.percent_change, ChangeOfState(t.state))
                /\ db_call.trend_direction = "rising" => t.percent_change[1] > 0
                /\ db_call.trend_direction = "falling" => t.percent_change[1] < 0
                /\ RLeq(RInt(1), RAbs(t.percent_change))

\* a call that returns a state and leaves out another whose two windows are
\* populated and whose change is below the floor
C19_Witness ==
    /\ TR_Done
    /\ Len(ReturnedTrends) > 0
    /\ \E st \in {b.row.state : b \in store} :
          /\ Count(WindowRows(st, TRUE)) >= MinWindowSamples
          /\ Count(WindowRows(st, FALSE)) >= MinWindowSamples
          /\ ~RIsZero(ChangeOfState(st))
          /\ RLt(RAbs(ChangeOfState(st)), RInt(1))
          /\ \A i \in 1..Len(ReturnedTrends) : ReturnedTrends[i].state # st

\* a call that returns a state whose change is exactly the floor
C19_FloorWitness ==
    /\ TR_Done
    /\ db_call.trend_direction = "falling"
    /\ \E i \in 1..Len(ReturnedTrends) : REq(ReturnedTrends[i].percent_change, RInt(0 - 1))

(***************************************************************************)
(* DatabaseService.find_nearby_jobs.  Coordinates are in ten-thousandths   *)
(* of a degree, distances and radius_miles in hundredths of a mile.  The   *)
(* columns "shiftType" and vms, which the query only hands through, are    *)
(* left out of the rows.                                                   *)
(***************************************************************************)
DefaultNearbyLimit == 20

Sites == {"Albany", "Troy", "Schenectady", "Buffalo"}

Coordinates(site) ==
    CASE site = "Albany"      -> [lat |-> 426526, lon |-> -737562]
      [] site = "Troy"        -> [lat |-> 427284, lon |-> -736918]
      [] site = "Schenectady" -> [lat |-> 428142, lon |-> -739396]
      [] site = "Buffalo"     -> [lat |-> 428864, lon |-> -788784]

SiteAt(lat, lon) == CHOOSE site \in Sites : Coordinates(site) = [lat |-> lat, lon |-> lon]

\* cos(radians(a)) * cos(radians(b)) * cos(radians(d) - radians(c))
\*   + sin(radians(a)) * sin(radians(b)), computed in IEEE 754 double
\* precision, is 1.0000000000000002 for the coordinates of Albany taken both
\* as centre and as row; it is at most 1 for every other pair of sites
AcosArgumentAboveOne(centre, site) == centre = "Albany" /\ site = "Albany"

\* 3959 * acos(...) for an argument within [-1, 1]
DistanceMiles(centre, site) ==
    LET pair == {centre, site}
    IN  CASE centre = site -> 0
          [] pair = {"Albany", "Troy"} -> 617
          [] pair = {"Albany", "Schenectady"} -> 1454
          [] pair = {"Troy", "Schenectady"} -> 1390
          [] pair = {"Albany", "Buffalo"} -> 26028
          [] pair = {"Troy", "Buffalo"} -> 26311
          [] pair = {"Schenectady", "Buffalo"} -> 25020

MkSiteRow(site, sp, prof, bill, age, located) ==
    [clientName |-> <<site>>, city |-> site, state |-> "NY",
     newSpecialty |-> sp, newProfession |-> prof,
     billRate |-> bill, weeklyPay |-> <<2000>>, hourlyPay |-> <<50>>,
     ageDays |-> age,
     latitude |-> IF located THEN <<Coordinates(site).lat>> ELSE <<>>,
     longitude |-> IF located THEN <<Coordinates(site).lon>> ELSE <<>>]

SiteRowKinds ==
    {MkSiteRow(site, "RN - ICU", "Nursing", <<100>>, 10, TRUE) : site \in Sites}
    \cup {MkSiteRow("Troy", "RN - ICU", "Nursing", <<80>>, 10, TRUE),
          MkSiteRow("Troy", "RN - ICU", "Allied", <<100>>, 10, TRUE),
          MkSiteRow("Troy", "RN - NICU", "Nursing", <<100>>, 10, TRUE),
          MkSiteRow("Troy", "RN - ICU", "Nursing", <<>>, 10, TRUE),
          MkSiteRow("Troy", "RN - ICU", "Nursing", <<100>>, 10, FALSE),
          MkSiteRow("Albany", "RN - ICU", "Nursing", <<100>>, 100, TRUE)}

SiteBatches == {[row |-> r, n |-> m] : r \in SiteRowKinds, m \in {1, 2}}

\* more rows within the radius than the default limit, at two distances
ManySitesStore ==
    {[row |-> MkSiteRow("Troy", "RN - ICU", "Nursing", <<100>>, 10, TRUE), n |-> 12],
     [row |-> MkSiteRow("Schenectady", "RN - ICU", "Nursing", <<100>>, 10, TRUE), n |-> 12]}

SiteStores == SubsetsUpTo(SiteBatches, MaxBatches) \cup {ManySitesStore}

\* lines 1376-1384: rate_column_map.get(rate_type, "billRate")
NearbyRateColumn(rate_type) ==
    IF rate_type \in {"weeklyPay", "weekly_pay"} THEN "weeklyPay"
    ELSE IF rate_type \in {"hourlyPay", "hourly_pay"} THEN "hourlyPay"
    ELSE "billRate"

\* lines 1355-1392: where_clause
NearbyWhere(b, c) ==
    LET col == NearbyRateColumn(c.rate_type)
    IN  /\ ~IsNull(b.row.latitude)
        /\ ~IsNull(b.row.longitude)
        /\ b.row.ageDays <= LookbackDays
        /\ Truthy(c.specialty) =>
              RegexMatch(_normalize_specialty_for_query(c.specialty), b.row.newSpecialty)
        /\ Truthy(c.profession) => b.row.newProfession = c.profession
        /\ ~IsNull(b.row[col])
        /\ (c.min_rate # <<>> /\ c.min_rate[1] # 0) => b.row[col][1] >= c.min_rate[1]

CentreOf(c) == SiteAt(c.center_lat, c.center_lon)

RowSite(b) == SiteAt(b.row.latitude[1], b.row.longitude[1])

\* the distance expression raises "input is out of range" on this row
DistanceRaises(b, c) ==
    /\ ~IsNull(b.row.latitude)
    /\ ~IsNull(b.row.longitude)
    /\ AcosArgumentAboveOne(CentreOf(c), RowSite(b))

\* the WHERE clause of lines 1414-1423 where no row raises
NearbyRows(st, c) ==
    {b \in st : /\ NearbyWhere(b, c)
                /\ DistanceMiles(CentreOf(c), RowSite(b)) <= c.radius_miles}

\* the SELECT list of one row
NearbyRow(r, c) ==
    [clientName |-> r.clientName, city |-> r.city, state |-> r.state,
     newSpecialty |-> r.newSpecialty, newProfession |-> r.newProfession,
     rate |-> r[NearbyRateColumn(c.rate_type)], startDate |-> 0 - r.ageDays,
     latitude |-> r.latitude, longitude |-> r.longitude,
     distance_miles |-> DistanceMiles(CentreOf(c), SiteAt(r.latitude[1], r.longitude[1]))]

\* ORDER BY distance_miles ASC over the rows of the batches: rows of one
\* distance come in any order
RECURSIVE OrderedByDistance(_, _)
OrderedByDistance(bs, c) ==
    IF bs = {} THEN {<<>>}
    ELSE UNION {{<<NearbyRow(m.row, c)>> \o q : q \in OrderedByDistance(TakeOne(bs, m), c)} :
                   m \in {x \in bs : \A y \in bs :
                            DistanceMiles(CentreOf(c), RowSite(x))
                               <= DistanceMiles(CentreOf(c), RowSite(y))}}

NearbyQuery(st, c) ==
    {Limit(q, c.limit) : q \in OrderedByDistance(Merged(NearbyRows(st, c)), c)}

NearbyCalls ==
    {[method |-> "find_nearby_jobs",
      center_lat |-> Coordinates(site).lat, center_lon |-> Coordinates(site).lon,
      radius_miles |-> r, specialty |-> sp, rate_type |-> rt, min_rate |-> mr,
      profession |-> prof, limit |-> l] :
        site \in {"Albany", "Schenectady"}, r \in {617, 5000},
        sp \in {NoneVal, "ICU"}, rt \in {"billRate", "weekly_pay"},
        mr \in {<<>>, <<0>>, <<100>>}, prof \in {NoneVal, "Nursing"},
        l \in {1, DefaultNearbyLimit}}

\* lines 1352-1438: the query and the return of its rows.  The query fails
\* when the distance expression raises on a row; the data store may compute
\* it also for a row the other conditions reject.  The except clause of
\* lines 1440-1445 then returns None.
NB_Call ==
    /\ db_pc = "start"
    /\ db_call.method = "find_nearby_jobs"
    /\ pool
    /\ \E value \in
          (IF \E b \in store : DistanceRaises(b, db_call) THEN {<<>>} ELSE {})
          \cup
          (IF \E b \in store : DistanceRaises(b, db_call) /\ NearbyWhere(b, db_call)
           THEN {}
           ELSE {<<results>> : results \in NearbyQuery(store, db_call)}) :
          db_return' = value
    /\ db_pc' = "done"
    /\ UNCHANGED <<rrVars, epVars, fVars, db_call, db_local>>

\* lines 1440-1445: execute_query raised for want of a pool or a connection
NB_Except ==
    /\ db_pc = "start"
    /\ db_call.method = "find_nearby_jobs"
    /\ db_pc' = "failed"
    /\ db_return' = <<>>
    /\ UNCHANGED <<rrVars, epVars, fVars, db_call, db_local>>

InitNearby ==
    /\ EndpointIdle
    /\ ForecastIdle
    /\ store \in SiteStores
    /\ pool \in BOOLEAN
    /\ parameters = [specialty |-> NoneVal, rate_type |-> NoneVal, profession |-> NoneVal,
                     city |-> NoneVal, state |-> NoneVal, location |-> NoneVal]
    /\ rr_pc = "idle"
    /\ rr_result = <<>>
    /\ rr_return = <<>>
    /\ rr_queries = <<>>
    /\ rr_fault = "none"
    /\ chat = [kind |-> "pending"]
    /\ db_call \in NearbyCalls
    /\ db_pc = "start"
    /\ db_local = <<>>
    /\ db_return = <<>>

NextNearby == NB_Call \/ NB_Except

SpecNearby == InitNearby /\ [][NextNearby]_vars

NB_Done ==
    /\ db_call.method = "find_nearby_jobs"
    /\ db_pc = "done"

\* the candidate rows of the call: located, recent, with the active metric,
\* passing the optional specialty, profession and minimum-rate filters
Candidates == {b \in store : NearbyWhere(b, db_call)}

\* the true distance of a candidate from the centre
TrueDistance(b) == DistanceMiles(CentreOf(db_call), RowSite(b))

WithinRadius == {b \in Candidates : TrueDistance(b) <= db_call.radius_miles}

\* C18: find_nearby_jobs returns exactly the candidate rows whose distance
\* from the centre is <= radius_miles, a row at exactly radius_miles
\* included, sorted by ascending distance and truncated to limit.
C18_NearbyWithinRadius ==
    NB_Done =>
        /\ db_return # <<>>
        /\ LET l == db_return[1]
           IN  /\ Len(l) = IF Count(WithinRadius) < db_call.limit
                           THEN Count(WithinRadius) ELSE db_call.limit
               /\ \A i \in 1..Len(l) :
                     /\ l[i].distance_miles <= db_call.radius_miles
                     /\ \E b \in WithinRadius : NearbyRow(b.row, db_call) = l[i]
               /\ \A i, j \in 1..Len(l) : i < j => l[i].distance_miles <= l[j].distance_miles
               /\ \A b \in WithinRadius :
                     (\A i \in 1..Len(l) : NearbyRow(b.row, db_call) # l[i])
                        => /\ Len(l) = db_call.limit
                           /\ l[Len(l)].distance_miles <= TrueDistance(b)

\* the same where no row of the table lies on the centre's coordinates
C18_AwayFromCentre ==
    (NB_Done /\ \A b \in store : ~DistanceRaises(b, db_call)) =>
        /\ db_return # <<>>
        /\ LET l == db_return[1]
           IN  /\ Len(l) = IF Count(WithinRadius) < db_call.limit
                           THEN Count(WithinRadius) ELSE db_call.limit
               /\ \A i \in 1..Len(l) :
                     /\ l[i].distance_miles <= db_call.radius_miles
                     /\ \E b \in WithinRadius : NearbyRow(b.row, db_call) = l[i]
               /\ \A i, j \in 1..Len(l) : i < j => l[i].distance_miles <= l[j].distance_miles

\* C21: every public resolver returns either a populated result or None;
\* none returns an empty collection as a successful result when nothing
\* matched.  For find_nearby_jobs: a completed call returns None or a list
\* that holds a row.
C21_NoEmptySuccess ==
    NB_Done => (db_return = <<>> \/ db_return[1] # <<>>)

(***************************************************************************)
(* Claims about the top-state retry of generate_forecast_analysis.         *)
(***************************************************************************)
\* the states asked for after the primary request failed, in order
RetriedStates ==
    IF f_error = "none" \/ Len(f_requests) < 2 THEN <<>>
    ELSE [k \in 1..(Len(f_requests) - 1) |-> f_requests[k + 1].states]

\* the fixed order CA, TX, FL, NY, PA without the state that failed
FixedOrder ==
    SelectSeq(<<"CA", "TX", "FL", "NY", "PA">>, LAMBDA st : st # f_state)

RetryInFixedOrder ==
    /\ Len(RetriedStates) <= Len(FixedOrder)
    /\ \A k \in 1..Len(RetriedStates) : RetriedStates[k] = <<FixedOrder[k]>>

C22_ThirdRequestWitness ==
    /\ FA_Done
    /\ Len(f_forecasts) = 2
    /\ Len(RetriedStates) = 5
    /\ f_forecasts[2].state = "TX"

(***************************************************************************)
(* Further claims about get_rate_recommendation.                           *)
(***************************************************************************)
\* C23: within one scope, when the normalised specialty matches several
\* specialty labels and so several groupings, the grouping returned is the
\* one with the largest sample size, at the city+state, the state and the
\* national tier alike.
C23_LargestGroupingEveryTier ==
    (RR_Completed /\ rr_return # <<>>) =>
        \A g \in TierGroups(Last(rr_queries)) : Count(g) <= rr_return[1].sample_size

(***************************************************************************)
(* get_rate_recommendation over rows whose three metrics are not all      *)
(* present and within their bounds.                                        *)
(***************************************************************************)
\* metric profiles: no weekly pay; an hourly pay below its bounds; a bill
\* rate above its bounds
NoWeeklyPay == [billRate |-> <<100>>, weeklyPay |-> <<>>, hourlyPay |-> <<50>>]
LowHourlyPay == [billRate |-> <<110>>, weeklyPay |-> <<2200>>, hourlyPay |-> <<5>>]
HighBillRate == [billRate |-> <<900>>, weeklyPay |-> <<2400>>, hourlyPay |-> <<60>>]

PartialRowKinds ==
    {MkRow("RN - ICU", "Buffalo", "NY", pay) :
        pay \in {HiPay, NoWeeklyPay, LowHourlyPay, HighBillRate}}

PartialStores ==
    SubsetsUpTo({[row |-> r, n |-> m] : r \in PartialRowKinds, m \in Multiplicities},
                MaxBatches)

InitPartial ==
    /\ EndpointIdle
    /\ store \in PartialStores
    /\ pool \in BOOLEAN
    /\ parameters \in Parameters
    /\ rr_pc = "start"
    /\ rr_result = <<>>
    /\ rr_return = <<>>
    /\ rr_queries = <<>>
    /\ rr_fault = "none"
    /\ chat = [kind |-> "pending"]
    /\ ForecastIdle
    /\ DbIdle

SpecPartial == InitPartial /\ [][Next]_vars

\* the sanity bounds of the active metric alone
ActiveMetricValid(b, col) ==
    CASE col = "billRate"  -> Between(b.row.billRate, BillRateMin, BillRateMax)
      [] col = "weeklyPay" -> Between(b.row.weeklyPay, WeeklyPayMin, WeeklyPayMax)
      [] col = "hourlyPay" -> Between(b.row.hourlyPay, HourlyPayMin, HourlyPayMax)

\* the rows of the returned grouping's scope and label whose active metric
\* is non-null and within its bounds, whatever the other two metrics are
RowsByActiveMetric ==
    LET p == parameters
        t == Last(rr_queries)
    IN  {b \in store :
            /\ RegexMatch(_normalize_specialty_for_query(p.specialty), b.row.newSpecialty)
            /\ b.row.newSpecialty = rr_return[1].specialty
            /\ b.row.ageDays <= LookbackDays
            /\ _get_profession_filter(p.profession, b.row)
            /\ t = "city" => /\ Lower(b.row.city) = Lower(p.city)
                             /\ Lower(b.row.state) = Lower(p.state)
            /\ t = "state" => Lower(b.row.state) = Lower(StateCode(p))
            /\ ActiveMetricValid(b, RateColumn(p.rate_type))}

\* C24: a row whose active metric is non-null and within its bounds is
\* counted in the statistics row set, whether or not the other two metrics
\* are null or outside their bounds: the sample size returned is the number
\* of such rows.
C24_CountedByActiveMetricAlone ==
    (RR_Completed /\ rr_return # <<>>) =>
        rr_return[1].sample_size = Count(RowsByActiveMetric)

(***************************************************************************)
(* Further claims about get_rate_trends_by_state.                          *)
(***************************************************************************)
\* C25: a state appears in the output only if it has at least 2 qualifying
\* samples in the recent window (last 30 days) and at least 2 in the prior
\* window (30 to 90 days ago); a state present in only one window is never
\* reported.
C25_BothWindowsPopulated ==
    TR_Done =>
        \A i \in 1..Len(ReturnedTrends) :
            LET t == ReturnedTrends[i]
                recent == {b \in WindowRows(t.state, TRUE) : b.row.ageDays >= 0}
                prior == {b \in WindowRows(t.state, FALSE) :
                             b.row.ageDays >= 30 /\ b.row.ageDays <= 90}
            IN  /\ Count(recent) >= 2
                /\ Count(prior) >= 2
                /\ t.recent_sample_size = Count(recent)
                /\ t.older_sample_size = Count(prior)

\* The same with the windows as the query has them: from 30 days ago on,
\* start dates after today included, and from 90 to 30 days ago.
C25_BothWindowsAsQueried ==
    TR_Done =>
        \A i \in 1..Len(ReturnedTrends) :
            LET t == ReturnedTrends[i]
            IN  /\ Count(WindowRows(t.state, TRUE)) >= 2
                /\ Count(WindowRows(t.state, FALSE)) >= 2
                /\ t.recent_sample_size = Count(WindowRows(t.state, TRUE))
                /\ t.older_sample_size = Count(WindowRows(t.state, FALSE))

\* a call that returns one state and leaves out another that has two samples
\* in one window and fewer in the other
C25_OneWindowWitness ==
    /\ TR_Done
    /\ Len(ReturnedTrends) > 0
    /\ \E st \in {b.row.state : b \in store} :
          /\ \A i \in 1..Len(ReturnedTrends) : ReturnedTrends[i].state # st
          /\ Count(WindowRows(st, TRUE)) >= 2
          /\ Count(WindowRows(st, FALSE)) < 2
          /\ Count(WindowRows(st, FALSE)) > 0

(***************************************************************************)
(* The two cascades side by side: one call of get_rate_recommendation and  *)
(* one of generate_forecast_analysis, each awaited to its end.             *)
(***************************************************************************)
CascadeStores ==
    {{}, {[row |-> MkRow("RN - ICU", "Buffalo", "NY", HiPay), n |-> 5]}}

CascadeParameters ==
    {[specialty |-> "ICU", rate_type |-> NoneVal, profession |-> NoneVal] @@ loc :
        loc \in {[city |-> "buffalo", state |-> "NY", location |-> NoneVal]}}

CascadeForecastParameters ==
    {[specialty |-> "ICU", profession |-> "Allied",
      city |-> NoneVal, state |-> "NY", location |-> NoneVal],
     [specialty |-> "CRNA", profession |-> NoneVal,
      city |-> NoneVal, state |-> NoneVal, location |-> NoneVal],
     [specialty |-> "CRNA", profession |-> NoneVal,
      city |-> NoneVal, state |-> "NY", location |-> NoneVal]}

\* one call at a time: a request handler awaits get_rate_recommendation or
\* generate_forecast_analysis, never both at once
InitCascades ==
    /\ EndpointIdle
    /\ DbIdle
    /\ \/ /\ store \in CascadeStores
          /\ pool \in BOOLEAN
          /\ parameters \in CascadeParameters
          /\ rr_pc = "start"
          /\ rr_result = <<>>
          /\ rr_return = <<>>
          /\ rr_queries = <<>>
          /\ rr_fault = "none"
          /\ chat = [kind |-> "pending"]
          /\ ForecastIdle
       \/ /\ RateIdle
          /\ f_parameters \in CascadeForecastParameters
          /\ f_pc = "start"
          /\ f_state = NoneVal
          /\ f_requests = <<>>
          /\ f_error = "none"
          /\ f_horizon = FALSE
          /\ f_insights = <<>>
          /\ f_forecasts = <<>>
          /\ f_outcome = [kind |-> "pending", value |-> ErrorResult(""), exception |-> ""]

NextCascades == Next \/ NextForecast

\* an awaited coroutine goes on whenever its collaborator has answered, and
\* every answer the collaborator can give is one of the action's choices
SpecCascades ==
    InitCascades /\ [][NextCascades]_vars /\ WF_vars(Next) /\ WF_vars(NextForecast)

\* the bounds on the round trips of the two cascades
RoundTripsBounded ==
    /\ Len(rr_queries) <= 3
    /\ f_error = "none" =>
          /\ Len(f_requests) <= 2
          /\ Len(f_requests) = 2 => f_requests[2].states = <<>>
    /\ f_error # "none" =>
          /\ Len(f_requests) <= 1 + 5
          /\ \A k \in 2..Len(f_requests) : Len(f_requests[k].states) = 1

C26_ThreeQueriesWitness ==
    /\ rr_pc = "done"
    /\ Len(rr_queries) = 3

\* a primary request that succeeded, followed by the national supplement
C26_SupplementWitness ==
    /\ f_pc = "done"
    /\ f_error = "none"
    /\ Len(f_requests) = 2


(***************************************************************************)
(* get_clients_by_rate for a query whose rate_filter is unset.             *)
(***************************************************************************)
\* QueryParameters as extract_parameters builds it when the model's answer
\* has no rate_filter (rate_filter=result.get('rate_filter'), the dataclass
\* default None), and an object that has no such attribute at all
UnsetFilterParameters ==
    {[specialty |-> "ICU", location |-> loc, rate_type |-> rt, profession |-> NoneVal,
      rate_filter |-> NoneVal] : loc \in {"NY", NoneVal}, rt \in {NoneVal, "weekly_pay"}}
    \cup
    {[specialty |-> "ICU", location |-> loc, rate_type |-> rt, profession |-> NoneVal] :
        loc \in {"NY", NoneVal}, rt \in {NoneVal, "weekly_pay"}}

UnsetFilterStores == SubsetsUpTo(ClientBatches, 2)

\* chat_endpoint's call: get_clients_by_rate(parameters, target_rate=None)
InitUnsetFilter ==
    /\ EndpointIdle
    /\ ForecastIdle
    /\ store \in UnsetFilterStores
    /\ pool = TRUE
    /\ parameters \in UnsetFilterParameters
    /\ rr_pc = "idle"
    /\ rr_result = <<>>
    /\ rr_return = <<>>
    /\ rr_queries = <<>>
    /\ rr_fault = "none"
    /\ chat = [kind |-> "pending"]
    /\ db_call = [method |-> "get_clients_by_rate", target_rate |-> <<>>,
                  rate_tolerance |-> DefaultTolerance]
    /\ db_pc = "start"
    /\ db_local = <<>>
    /\ db_return = <<>>

SpecUnsetFilter == InitUnsetFilter /\ [][NextClients]_vars

\* the facilities ranked by average active metric, highest first
RankedHighestFirst ==
    {ClientResponse(results, parameters, <<>>, <<>>) :
        results \in RankedQuery(store, parameters.specialty, parameters.location,
                                RateColumn(parameters.rate_type), "DESC")}

\* C29: when the query's rate_filter is unset (the attribute is missing or
\* None), get_clients_by_rate behaves as for "highest": it never takes the
\* similar-to-target path, and what it returns is the facilities ranked by
\* average active metric, highest first.
C29_UnsetFilterRanksHighest ==
    /\ db_pc # "search"
    /\ db_pc = "done" => db_return \in RankedHighestFirst

\* C29 for an object without the attribute: the default of getattr applies
C29_MissingAttributeRanksHighest ==
    ("rate_filter" \notin DOMAIN parameters)
    => /\ db_pc # "search"
       /\ db_pc = "done" => db_return \in RankedHighestFirst

\* a ranked answer for an object without the attribute
C29_MissingAttributeWitness ==
    /\ "rate_filter" \notin DOMAIN parameters
    /\ db_pc = "done"
    /\ db_return # <<>>
    /\ Len(db_return[1].clients) >= 2


(***************************************************************************)
(* chat_endpoint (src/main.py) over CacheService (src/cache_service.py):   *)
(* the response cache, the market_comparison branch and the client_search  *)
(* branch.  A request is handled in one step.                              *)
(***************************************************************************)
\* CacheService(default_ttl=300)
DefaultTtl == 300

COMPACT_STATES ==
    {"AL", "AZ", "AR", "CO", "CT", "DE", "FL", "GA", "GU", "ID", "IN", "IA", "KS", "KY",
     "LA", "ME", "MD", "MA", "MS", "MO", "MT", "NE", "NH", "NJ", "NM", "NC", "ND", "OH",
     "OK", "PA", "RI", "SC", "SD", "TN", "TX", "UT", "VT", "VA", "VI", "WA", "WV", "WI", "WY"}

\* the messages of the requests
MsgCompare == "Compare ICU bill rates"
MsgCompact == "Which clients in compact license states have the highest ICU bill rates?"
MsgCompactUS ==
    "Which clients nationwide in compact license states have the highest ICU bill rates?"

Messages == {MsgCompare, MsgCompact, MsgCompactUS}

\* lines 1407, 1136, 1432: the keyword lists
NationalKeywords ==
    {"nationally", "national", "nationwide", "all states", "across the us", "entire us",
     "in the us", "the us", " us ", " us?", " us."}

MarketNurseKeywords ==
    {"nurse", "rn", "travel nurse", "she", "he", "make money", "pay", "salary",
     "compensation", "where should"}

ClientNurseKeywords ==
    {"nurse", "rn", "travel nurse", "she", "he", "job", "jobs", "pay", "paying", "make",
     "earn", "salary", "compensation", "where should", "highest paying"}

\* the keywords k of those lists, and of line 1441, with `k in message.lower()`
\* ("he" occurs in "the")
KeywordsIn(message) ==
    CASE message = MsgCompare   -> {}
      [] message = MsgCompact   -> {"compact", "license", "state", "he"}
      [] message = MsgCompactUS -> {"compact", "license", "state", "he", "nationwide"}

\* line 1407
is_national_query(message) == KeywordsIn(message) \cap NationalKeywords # {}

\* line 1441
wants_compact_states(message) ==
    /\ "compact" \in KeywordsIn(message)
    /\ "license" \in KeywordsIn(message) \/ "state" \in KeywordsIn(message)

\* the earlier turns of a conversation, none for a first message
Histories ==
    {<<>>,
     <<[role |-> "user", content |-> "Compare ICU bill rates in Ohio and NY"],
       [role |-> "assistant", content |-> "Ohio is 10.0% higher than NY"]>>}

\* ChatQuery
Queries ==
    [message : {MsgCompare}, conversation_history : Histories,
     user_role : {"sales"}, profession : {NoneVal, "Allied"}]
    \cup [message : {MsgCompact, MsgCompactUS}, conversation_history : {<<>>},
          user_role : {"sales"}, profession : {NoneVal, "Allied"}]

\* lines 385-390: md5 of the JSON text of message and role, taken as
\* injective on that text
CacheKey(q) == [message |-> q.message, role |-> q.user_role]

\* CacheService.get: the value, <<>> for None, and the cache it leaves
CacheGet(c, key, t) ==
    LET found == {e \in c : e.key = key}
        entry == CHOOSE e \in found : TRUE
    IN  IF found = {} THEN [value |-> <<>>, cache |-> c]
        ELSE IF t > entry.expires_at THEN [value |-> <<>>, cache |-> c \ found]
        ELSE [value |-> <<entry.value>>, cache |-> c]

\* CacheService.set with the default ttl
CacheSet(c, key, value, t) ==
    {e \in c : e.key # key}
    \cup {[key |-> key, value |-> value, expires_at |-> t + DefaultTtl]}

\* lines 392-397
Lookup(q) == CacheGet(cache, CacheKey(q), now)

\* where the answer of the language model places the query; location_list
\* is <<>> for None and <<list>> for a list
NoPlace ==
    [location_list |-> <<>>, city |-> NoneVal, state |-> NoneVal, location |-> NoneVal]

ComparePlaces(conversation_history) ==
    {NoPlace,
     [NoPlace EXCEPT !.location_list = <<<<>>>>],
     [NoPlace EXCEPT !.location_list = <<<<"Ohio">>>>],
     [NoPlace EXCEPT !.location_list = <<<<"Buffalo">>>>],
     [NoPlace EXCEPT !.city = "Chicago", !.state = "IL"],
     [NoPlace EXCEPT !.city = "Buffalo", !.state = "NY"],
     [NoPlace EXCEPT !.city = "Buffalo"],
     [NoPlace EXCEPT !.location = "Ohio"]}
    \cup IF conversation_history = <<>> THEN {}
         ELSE {[NoPlace EXCEPT !.location_list = <<<<"Ohio", "NY">>>>]}

SearchPlaces ==
    {NoPlace, [NoPlace EXCEPT !.location = "TX"], [NoPlace EXCEPT !.state = "TX"]}

\* lines 400-493: the QueryParameters that reach the routing, after
\* extract_parameters, the profession of the request and the follow-up merge
ExtractedParameters(q) ==
    LET common == [user_perspective |-> q.user_role,
                   profession |-> IF Truthy(q.profession) THEN q.profession ELSE NoneVal]
    IN  IF q.message = MsgCompare
        THEN {[query_type |-> "market_comparison", specialty |-> "ICU",
               rate_type |-> "bill_rate", rate_filter |-> NoneVal] @@ place @@ common :
                 place \in ComparePlaces(q.conversation_history)}
             \cup {[query_type |-> "market_comparison", specialty |-> sr[1],
                    rate_type |-> sr[2], rate_filter |-> NoneVal] @@ NoPlace @@ common :
                      sr \in {<<NoneVal, "bill_rate">>, <<"ICU", NoneVal>>}}
        ELSE {[query_type |-> "client_search", specialty |-> "ICU", rate_type |-> "bill_rate",
               rate_filter |-> "highest"] @@ place @@ common : place \in SearchPlaces}

\* a ChatResponse; resolved_for records the request whose handling built it
Reply(kind, q, p, data) ==
    [kind |-> kind, requires_data |-> kind \in {"comparison", "clients"},
     extracted_parameters |-> p, data |-> data, from_cache |-> FALSE, resolved_for |-> q]

\* lines 1854-1856: HTTPException(status_code=500)
InternalError(q, p) == Reply("internal_error", q, p, <<>>)

\* lines 1156-1167: the locations to parse, <<>> when the clarification of
\* line 1163 is returned instead
LocationsToCompare(p) ==
    LET locations == IF p.location_list = <<>> THEN <<>> ELSE p.location_list[1]
    IN  IF Len(locations) < 2
        THEN IF Truthy(p.city) /\ Truthy(p.state) THEN <<<<p.city, p.state>>>>
             ELSE IF Truthy(p.location) THEN <<>>
             ELSE <<locations>>
        ELSE <<locations>>

\* lines 1203-1229 on the place names of the requests
ParseLocation(loc) ==
    CASE loc = "Buffalo, NY" ->
            [ok |-> TRUE, city |-> "Buffalo", state |-> "NY", display |-> "Buffalo, NY"]
      [] loc \in {"NY", "IL"} ->
            [ok |-> TRUE, city |-> NoneVal, state |-> loc, display |-> loc]
      [] loc = "Ohio" ->
            [ok |-> TRUE, city |-> NoneVal, state |-> "OH", display |-> "Ohio"]
      [] loc = "Chicago" ->
            [ok |-> TRUE, city |-> "Chicago", state |-> "IL", display |-> "Chicago, IL"]
      [] OTHER ->
            [ok |-> FALSE, city |-> NoneVal, state |-> NoneVal, display |-> loc]

\* what get_rate_recommendation returns for one location
RateData == {<<>>, <<[market_average |-> 100]>>}

\* lines 1116-1329: the market_comparison branch
MarketComparisonReply(q, p0, loc1_data, loc2_data) ==
    LET nurse == KeywordsIn(q.message) \cap MarketNurseKeywords # {}
        p == IF ~Truthy(p0.rate_type) /\ nurse
             THEN [p0 EXCEPT !.rate_type = "weekly_pay"] ELSE p0
        locations == LocationsToCompare(p)
        parsed == [i \in 1..Len(locations[1]) |-> ParseLocation(locations[1][i])]
        needs_clarification == SelectSeq(parsed, LAMBDA l : ~l.ok)
        parsed_locations == SelectSeq(parsed, LAMBDA l : l.ok)
    IN  IF ~Truthy(p.specialty) THEN Reply("clarify_specialty", q, p, <<>>)
        ELSE IF ~Truthy(p.rate_type) THEN Reply("clarify_rate_type", q, p, <<>>)
        ELSE IF locations = <<>> THEN Reply("clarify_two_locations", q, p, <<>>)
        ELSE IF needs_clarification # <<>> THEN Reply("clarify_state", q, p, <<>>)
        ELSE IF Len(parsed_locations) < 2 THEN InternalError(q, p)
        ELSE IF loc1_data = <<>> \/ loc2_data = <<>> THEN Reply("no_data", q, p, <<>>)
        ELSE Reply("comparison", q, p,
                   <<[loc1_display |-> parsed_locations[1].display,
                      loc2_display |-> parsed_locations[2].display,
                      loc1_avg |-> loc1_data[1].market_average,
                      loc2_avg |-> loc2_data[1].market_average]>>)

\* get_clients_by_rate when its queries succeed: the values it can return
ClientsByRate(st, p, target_rate, rate_tolerance) ==
    LET col == RateColumn(p.rate_type)
        target == IF target_rate = <<>>
                  THEN MarketAverage(st, p.specialty, p.location, col)
                  ELSE target_rate
    IN  IF RateFilter(p) \in {"highest", "lowest"}
        THEN IF HasRankedQuery(p)
             THEN {ClientResponse(results, p, <<>>, <<>>) :
                     results \in RankedQuery(st, p.specialty, p.location, col,
                                    IF RateFilter(p) = "highest" THEN "DESC" ELSE "ASC")}
             ELSE {<<>>}
        ELSE IF target = <<>> \/ RIsZero(target[1]) \/ ~HasSimilarQuery(p) THEN {<<>>}
        ELSE {ClientResponse(results, p, <<target[1]>>,
                             SimilarBand(target[1], rate_tolerance)) :
                results \in SimilarQuery(st, p.specialty, p.location, col,
                                         SimilarBand(target[1], rate_tolerance))}

\* lines 1430-1449: the parameters passed to get_clients_by_rate
SearchParameters(q, p0) ==
    LET nurse == KeywordsIn(q.message) \cap ClientNurseKeywords # {}
        p1 == IF (~Truthy(p0.rate_type) \/ p0.rate_type = "highest") /\ nurse
              THEN [p0 EXCEPT !.rate_type = "weekly_pay"] ELSE p0
    IN  IF wants_compact_states(q.message) /\ ~Truthy(p1.location)
        THEN [p1 EXCEPT !.location = "COMPACT_STATES"] ELSE p1

\* lines 1396-1498: the client_search branch, one reply for each value
\* get_clients_by_rate can return
ClientSearchReplies(q, p0, st) ==
    LET missing == \/ ~Truthy(p0.specialty)
                   \/ /\ ~is_national_query(q.message)
                      /\ ~Truthy(p0.location) /\ ~Truthy(p0.city) /\ ~Truthy(p0.state)
        p == SearchParameters(q, p0)
        InCompact(client) == client.state \in COMPACT_STATES
        ReplyTo(client_results) ==
            IF wants_compact_states(q.message) /\ client_results # <<>>
            THEN IF SelectSeq(client_results[1].clients, InCompact) = <<>>
                 THEN Reply("no_compact_clients", q, p, <<>>)
                 ELSE Reply("clients", q, p,
                            <<[client_results[1] EXCEPT
                                 !.clients = SelectSeq(client_results[1].clients, InCompact)]>>)
            ELSE IF client_results = <<>> THEN Reply("no_clients", q, p, <<>>)
            ELSE Reply("clients", q, p, client_results)
    IN  IF missing THEN {Reply("clarify_search", q, p0, <<>>)}
        ELSE {ReplyTo(r) : r \in ClientsByRate(st, p, <<>>, DefaultTolerance)}

\* the end of a request that was not answered from the cache: the responses
\* with data are stored under the key of the request
Respond(q, reply) ==
    /\ query' = q
    /\ parameters' = reply.extracted_parameters
    /\ chat' = reply
    /\ cache' = IF reply.requires_data
                THEN CacheSet(Lookup(q).cache, CacheKey(q), reply, now)
                ELSE Lookup(q).cache
    /\ UNCHANGED <<store, pool, rr_pc, rr_result, rr_return, rr_queries, rr_fault, now,
                   fVars, dbVars>>

\* lines 392-397: the request is answered from the cache
ChatCacheHit ==
    \E q \in Queries :
        /\ Lookup(q).value # <<>>
        /\ query' = q
        /\ chat' = [Lookup(q).value[1] EXCEPT !.from_cache = TRUE]
        /\ UNCHANGED <<store, pool, parameters, rr_pc, rr_result, rr_return, rr_queries, rr_fault, cache, now, fVars, dbVars>>

ChatMarketComparison ==
    \E q \in Queries :
        /\ Lookup(q).value = <<>>
        /\ \E p \in ExtractedParameters(q) :
              /\ p.query_type = "market_comparison"
              /\ \E loc1_data \in RateData, loc2_data \in RateData :
                    Respond(q, MarketComparisonReply(q, p, loc1_data, loc2_data))

ChatClientSearch ==
    \E q \in Queries :
        /\ Lookup(q).value = <<>>
        /\ \E p \in ExtractedParameters(q) :
              /\ p.query_type = "client_search"
              /\ \E reply \in ClientSearchReplies(q, p, store) : Respond(q, reply)

\* time.time() goes on between two requests
Tick ==
    /\ now <= DefaultTtl
    /\ now' = now + DefaultTtl + 1
    /\ UNCHANGED <<rrVars, fVars, dbVars, query, cache>>

ChatStores ==
    SUBSET {[row |-> MkClientRow(<<"A">>, "Buffalo", "NY", "ICU", 100, 5, "Nursing"), n |-> 1],
            [row |-> MkClientRow(<<"C">>, "Austin",  "TX", "ICU", 110, 5, "Nursing"), n |-> 1]}

InitChat ==
    /\ EndpointIdle
    /\ ForecastIdle
    /\ DbIdle
    /\ store \in ChatStores
    /\ pool = TRUE
    /\ parameters = [query_type |-> NoneVal]
    /\ rr_pc = "idle"
    /\ rr_result = <<>>
    /\ rr_return = <<>>
    /\ rr_queries = <<>>
    /\ rr_fault = "none"
    /\ chat = [kind |-> "pending"]

NextChat == ChatCacheHit \/ ChatMarketComparison \/ ChatClientSearch \/ Tick

SpecChat == InitChat /\ [][NextChat]_vars


(***************************************************************************)
(* Claims about chat_endpoint.                                             *)
(***************************************************************************)
\* the request was answered, and not from the cache
AnsweredAfresh == chat.kind # "pending" /\ ~chat.from_cache

\* C27: across any sequence of /chat requests a cached response is returned
\* only to a request whose resolution inputs (message, user role, profession
\* filter, conversation history) equal those of the request that stored it:
\* two requests that differ only in profession or in conversation history
\* never receive one another's cached answer.
C27_CacheHitOnlyForEqualInputs ==
    (chat.kind # "pending" /\ chat.from_cache) => chat.resolved_for = query

\* what the key does separate: a cached response goes only to a request with
\* the message and the user role of the request that stored it
C27_CacheHitForEqualMessageAndRole ==
    (chat.kind # "pending" /\ chat.from_cache)
    => /\ chat.resolved_for.message = query.message
       /\ chat.resolved_for.user_role = query.user_role

\* a response built under the Allied filter, returned from the cache to a
\* request without profession filter
C27_OtherProfessionWitness ==
    /\ chat.kind # "pending" /\ chat.from_cache
    /\ chat.extracted_parameters.profession = "Allied"
    /\ query.profession = NoneVal

\* a response returned from the cache to the request that stored it, asked again
C27_SameRequestWitness ==
    /\ chat.kind # "pending" /\ chat.from_cache
    /\ chat.resolved_for = query

\* fewer than two parseable locations: no location_list, an empty or a
\* single-entry one, with or without city and state
FewerThanTwoLocations ==
    \/ parameters.location_list = <<>>
    \/ Len(parameters.location_list[1]) < 2

Clarifications ==
    {"clarify_specialty", "clarify_rate_type", "clarify_two_locations", "clarify_state",
     "clarify_search"}

\* C28: for a market_comparison query that has a specialty and a rate type
\* but fewer than two parseable locations (empty location_list, a
\* single-entry location_list, or only city/state), chat_endpoint returns a
\* clarification ChatResponse and never fails with an internal error.
C28_FewLocationsClarified ==
    (/\ AnsweredAfresh
     /\ parameters.query_type = "market_comparison"
     /\ Truthy(parameters.specialty) /\ Truthy(parameters.rate_type)
     /\ FewerThanTwoLocations)
    => chat.kind \in Clarifications

\* the cases of C28 in which the code does ask: a location without city and
\* state, or a place whose state cannot be told
C28_ClarifiedWhenAmbiguous ==
    (/\ AnsweredAfresh
     /\ parameters.query_type = "market_comparison"
     /\ Truthy(parameters.specialty) /\ Truthy(parameters.rate_type)
     /\ FewerThanTwoLocations
     /\ \/ Truthy(parameters.location) /\ ~(Truthy(parameters.city) /\ Truthy(parameters.state))
        \/ parameters.location_list = <<<<"Buffalo">>>>
        \/ parameters.city = "Buffalo" /\ Truthy(parameters.state))
    => chat.kind \in Clarifications

C28_ClarifiedWitness ==
    /\ AnsweredAfresh
    /\ parameters.query_type = "market_comparison"
    /\ parameters.location_list = <<<<"Buffalo">>>>
    /\ chat.kind = "clarify_state"

\* the rows of the store that a search for the specialty of the request can
\* list, in compact states
CompactFacilityRows ==
    {b \in RankedRows(store, parameters.specialty, NoneVal, RateColumn(parameters.rate_type)) :
        b.row.state \in COMPACT_STATES}

\* the query named no location: none was extracted, and the location of the
\* parameters is at most the marker the branch sets itself
NamesNoLocation ==
    /\ parameters.location \in {NoneVal, "COMPACT_STATES"}
    /\ ~Truthy(parameters.city)
    /\ ~Truthy(parameters.state)

\* the up-to-15 ranked facilities restricted to COMPACT_STATES
CompactListings ==
    {SelectSeq(results, LAMBDA c : c.state \in COMPACT_STATES) :
        results \in RankedQuery(store, parameters.specialty, NoneVal,
                                RateColumn(parameters.rate_type), "DESC")}

\* C30: for a client_search query that asks for compact-license states and
\* names no location, whenever the data store holds matching facilities in
\* compact states the response lists them (the up-to-15 ranked facilities
\* restricted to COMPACT_STATES) rather than reporting that no clients were
\* found.
C30_CompactFacilitiesListed ==
    (/\ AnsweredAfresh
     /\ parameters.query_type = "client_search"
     /\ wants_compact_states(query.message)
     /\ NamesNoLocation
     /\ CompactFacilityRows # {})
    => /\ chat.kind = "clients"
       /\ chat.data[1].clients \in CompactListings

\* the request of C30 answered with "no clients found" over a store that
\* holds a matching facility in Texas
C30_NotFoundWitness ==
    /\ AnsweredAfresh
    /\ parameters.query_type = "client_search"
    /\ wants_compact_states(query.message)
    /\ NamesNoLocation
    /\ CompactFacilityRows # {}
    /\ chat.kind = "no_clients"

\* with a state named in the location of the query the facilities of a
\* compact state are listed
C30_ListedWithLocationWitness ==
    /\ AnsweredAfresh
    /\ wants_compact_states(query.message)
    /\ parameters.location = "TX"
    /\ chat.kind = "clients"
    /\ Len(chat.data[1].clients) = 1

=============================================================================
